---- MODULE Spec2Model ----
(***************************************************************************)
(* A model of the IRC server's connection state machine                    *)
(* (src/src/service/connection.rs) running against the shared registry     *)
(* (the Server behind Arc<Mutex<Server>>).  One task per accepted socket;  *)
(* a task holds its own connection's lock for a whole handler and takes    *)
(* the registry lock for each registry call.                               *)
(***************************************************************************)
EXTENDS Integers, Sequences, FiniteSets, TLC

\* ------------------------------------------------------------------ bounds

NumConns == 2
NumNicks == 2
NumChannels == 2
MaxChannelsPerReq == 2
MaxTargets == 2
MaxMailbox == 1
\* Channels named by the requests of the full specification.
MainChannels == 1
\* Lines per connection in the logged registration runs.
MaxLines == 3
\* Cleanups per socket in the logged runs of sessions that end.
MaxDisconnects == 1
\* Bytes in the read buffer of the framed socket.
MaxBuf == 5
\* Bytes in a line put together for the parser, terminator included.
MaxInput == 7
\* Channels in the comma list of one JOIN or PART line.
MaxList == 2
\* Parameters of a line handed to Request::from_str, and the items its
\* params vector is followed to.
MaxParams == 4
\* Events a mailbox holds in the logged mailbox runs
\* (configuration.connection_message_queue_length).
QueueLength == 2
\* Entries in the logs of all connections together in the logged mailbox runs.
MaxLog == 5
\* Whole lines left in the read buffer when a socket reaches its end.
MaxBuffered == 1
\* Messages in one mailbox event.
MaxEventMessages == 2

\* ------------------------------------------------------------- value sets

\* Option<T>: None is the empty tuple, Some(x) the one-element tuple.
None == <<>>
Some(x) == <<x>>
IsSome(o) == o # None
Unwrap(o) == o[1]

NickNames == <<"alice", "bob", "carol", "dave">>
ChannelNames == <<"#a", "#b", "#c", "#d">>

Conns == 1..NumConns
Nicks == {NickNames[i] : i \in 1..NumNicks}
Channels == {ChannelNames[i] : i \in 1..NumChannels}
UserNames == {"u1"}
RealNames == {"r1"}
Keys == {"k"}
PartMessages == {None, Some("bye")}
Texts == {"hi"}
\* Mode strings, one character per element.
ModeStrings == {<<"+", "i">>, <<"-", "i">>, <<"i", "i">>, <<"+">>, <<"+", "i", "x">>}
\* The flag characters user::UserMode parses.
UserModes == {"i", "w"}
ServerHostname == "irc.local"
PingTargets == {None, Some(ServerHostname), Some("other.server")}

\* Connection::new: hostname = addr.remote.ip().to_string()
HostOf(c) == c

\* Non-empty sequences over S of length at most n.
SeqsUpTo(S, n) == UNION {[1..k -> S] : k \in 1..n}

RECURSIVE Perms(_)
Perms(S) ==
    IF S = {} THEN {<<>>}
    ELSE UNION {{<<x>> \o p : p \in Perms(S \ {x})} : x \in S}

Range(s) == {s[i] : i \in DOMAIN s}

\* ------------------------------------------------------------------ state

VARIABLES
    connections,  \* keys of the live-connections map (SocketPairs)
    conn_type,    \* per socket: the Connection's conn_type
    task,         \* per socket: where the connection's task stands
    server,       \* the registry: [users: nick -> User, channels: name -> Channel]
    mailbox,      \* per socket: the events queued on the connection's mpsc channel
    log,          \* per socket: the lines handled and what each returned (observer)
    src,          \* the read buffer of a framed socket (the BytesMut given to decode)
    frame,        \* what the decode call of the current poll returned
    received,     \* every byte the socket has delivered so far (observer)
    yielded,      \* what each decode and decode_eof call returned, in order (observer)
    eof,          \* the socket has reported end of stream
    input,        \* the line handed to the parser (with its terminator)
    parsed,       \* what the parser returned for it
    request,      \* the typed request read from the line
    written,      \* what serializing that request put on the wire
    token,        \* a command token handed to the command-level parsers
    resolved,     \* what each of them made of it
    call,         \* a call of Request::from_str: its locals and where it stands
    lock          \* the owner of each mutex and where each task stands among them

vars == <<connections, conn_type, task, server, mailbox, log, src, frame,
          received, yielded, eof, input, parsed, request, written, token, resolved,
          call, lock>>

serial == <<request, written>>
catalog == <<token, resolved>>

\* What the observers of the framed socket have recorded.
history == <<received, yielded, eof>>

\* The state of the framing layer, which no connection handler touches.
codec == <<src, frame, history, input, parsed, serial, catalog, call, lock>>

\* The state of the connections and the registry, which framing and parsing
\* on their own do not touch.
service == <<connections, conn_type, task, server, mailbox, log>>

\* ------------------------------------------------------ connection records

\* No Connection object exists for the socket.
Closed ==
    [tag |-> "Closed", nickname |-> None, username |-> None, realname |-> None,
     hostname |-> None, channels |-> {}, modes |-> {}]

\* ConnectionType::Registering(Registration::new(hostname))
Registration(hostname) ==
    [tag |-> "Registering", nickname |-> None, username |-> None,
     realname |-> None, hostname |-> Some(hostname), channels |-> {}, modes |-> {}]

UserIdentifier(nick, username, realname, hostname) ==
    [nick |-> nick, username |-> username, realname |-> realname, hostname |-> hostname]

\* ConnectionType::Client(User::new(&ident, server, tx))
ClientOf(ident) ==
    [tag |-> "Client", nickname |-> Some(ident.nick), username |-> Some(ident.username),
     realname |-> Some(ident.realname), hostname |-> Some(ident.hostname),
     channels |-> {}, modes |-> {}]

registered(c) == conn_type[c].tag # "Registering"

\* get_user().identifier()
identifier(c) ==
    UserIdentifier(Unwrap(conn_type[c].nickname), Unwrap(conn_type[c].username),
                   Unwrap(conn_type[c].realname), Unwrap(conn_type[c].hostname))

Idle == [pc |-> "idle", results |-> <<>>, channels |-> <<>>, message |-> None]

\* ---------------------------------------------------------------- messages

IRCMessage(prefix, command, params) ==
    [prefix |-> prefix, command |-> command, params |-> params]

error_resp(command, params) == <<IRCMessage(None, command, params)>>

\* ---------------------------------------------------- the codec (framing)

\* b'\r' and b'\n'
CR == 13
LF == 10

\* The bytes a socket delivers: the two of the terminator, an ASCII letter and
\* a byte that no UTF-8 string contains.
Bytes == {CR, LF, 97, 255}

\* Result<Option<String>, io::Error> of a decode call, and no call made yet.
Pending == [tag |-> "Pending", item |-> None]
DecodeOk(item) == [tag |-> "Ok", item |-> item]
DecodeErr == [tag |-> "Err", item |-> None]

\* str::from_utf8(&line).is_ok()
from_utf8(line) == \A i \in DOMAIN line : line[i] < 128

\* The scan of decode: the positions, counted from 0, at which the loop's test holds.
crlf_positions(s) ==
    {pos \in 0..(Len(s) - 1) : pos > 1 /\ s[pos + 1] = LF /\ s[pos] = CR}

\* decode dropping what follows the line it returns.
decode_greedy(s) ==
    IF crlf_positions(s) = {} THEN [frame |-> DecodeOk(None), src |-> s]
    ELSE LET pos == CHOOSE p \in crlf_positions(s) : \A q \in crlf_positions(s) : p <= q
             line == SubSeq(s, 1, pos - 1)
         IN  [frame |-> IF from_utf8(line) THEN DecodeOk(Some(line)) ELSE DecodeErr,
              src |-> <<>>]

\* decode that empties the buffer when it finds no terminator.
decode_draining(s) ==
    IF crlf_positions(s) = {} THEN [frame |-> DecodeOk(None), src |-> <<>>]
    ELSE LET pos == CHOOSE p \in crlf_positions(s) : \A q \in crlf_positions(s) : p <= q
             line == SubSeq(s, 1, pos - 1)
         IN  [frame |-> IF from_utf8(line) THEN DecodeOk(Some(line)) ELSE DecodeErr,
              src |-> SubSeq(s, pos + 2, Len(s))]

\* Utf8CrlfCodec::decode on the buffer s: what it returns and what it leaves in
\* the buffer.  split_to(pos + 1) takes the first pos + 1 bytes, of which the
\* first pos - 1 are the line.
decode(s) ==
    IF crlf_positions(s) = {} THEN [frame |-> DecodeOk(None), src |-> s]
    ELSE LET pos == CHOOSE p \in crlf_positions(s) : \A q \in crlf_positions(s) : p <= q
             line == SubSeq(s, 1, pos - 1)
         IN  [frame |-> IF from_utf8(line) THEN DecodeOk(Some(line)) ELSE DecodeErr,
              src |-> SubSeq(s, pos + 2, Len(s))]

\* Utf8CrlfCodec::decode_eof on the buffer s.
decode_eof(s) ==
    LET decoded == decode(s) IN
    IF decoded.frame.tag = "Err" THEN decoded
    ELSE IF decoded.frame.item # None THEN decoded
    ELSE [frame |-> DecodeErr, src |-> decoded.src]

\* ------------------------------------------- the line grammar (parse_syntax)
\* A line is the sequence of its bytes.

Colon == 58
Space == 32

\* The longest input parse_syntax accepts, terminator included.
MaxCommandLength == 512

\* char::is_whitespace, for the bytes of one-byte characters.
Whitespace == {9, 10, 11, 12, 13, Space}

\* Result<Syntax, ParseError>, and no call made yet.
Unparsed == [tag |-> "Unparsed", err |-> "", prefix |-> None, command |-> <<>>, params |-> <<>>]
SyntaxErr(desc) ==
    [tag |-> "Err", err |-> desc, prefix |-> None, command |-> <<>>, params |-> <<>>]
Syntax(prefix, command, params) ==
    [tag |-> "Ok", err |-> "", prefix |-> prefix, command |-> command, params |-> params]

\* input.ends_with("\r\n")
ends_with_crlf(s) == Len(s) >= 2 /\ s[Len(s) - 1] = CR /\ s[Len(s)] = LF

\* str::trim_right
RECURSIVE trim_right(_)
trim_right(s) ==
    IF s # <<>> /\ s[Len(s)] \in Whitespace THEN trim_right(SubSeq(s, 1, Len(s) - 1)) ELSE s

\* str::find(ch): the index, counted from 0, of the first ch, or -1 for None.
find(s, ch) ==
    IF \E i \in DOMAIN s : s[i] = ch
    THEN (CHOOSE i \in DOMAIN s : s[i] = ch /\ \A j \in 1..(i - 1) : s[j] # ch) - 1
    ELSE -1

\* &s[a..b] and &s[a..], indices counted from 0.
slice(s, a, b) == SubSeq(s, a + 1, b)
slice_from(s, a) == SubSeq(s, a + 1, Len(s))

starts_with(s, ch) == s # <<>> /\ s[1] = ch

\* The length test of parse_syntax with the upper limit one byte too high.
bad_length_lenient(s) == Len(s) < 2 \/ Len(s) > MaxCommandLength + 1

\* parse_syntax, the length test.
bad_length(s) == Len(s) < 2 \/ Len(s) > MaxCommandLength

\* parse_syntax, the prefix: what is stored and what remains.
take_prefix(remainder) ==
    LET idx == find(remainder, Space)
    IN  [prefix |-> Some(slice(remainder, 0, idx)), remainder |-> slice_from(remainder, idx + 1)]

\* parse_syntax, the command token: the token and what remains.
take_command(remainder) ==
    LET idx == find(remainder, Space)
    IN  IF idx >= 0
        THEN [command |-> slice(remainder, 0, idx), remainder |-> slice_from(remainder, idx + 1)]
        ELSE [command |-> remainder, remainder |-> <<>>]

\* The loop over the parameters pushing the empty tokens too.
RECURSIVE take_params_keeping(_, _)
take_params_keeping(remainder, params) ==
    IF remainder = <<>> THEN params
    ELSE IF starts_with(remainder, Colon)
    THEN Append(params, slice_from(remainder, 1))
    ELSE LET idx == find(remainder, Space) IN
         IF idx >= 0
         THEN take_params_keeping(slice_from(remainder, idx + 1),
                                  Append(params, slice(remainder, 0, idx)))
         ELSE Append(params, remainder)

\* parse_syntax, the loop over the parameters.
RECURSIVE take_params(_, _)
take_params(remainder, params) ==
    IF remainder = <<>> THEN params
    ELSE IF starts_with(remainder, Colon)
    THEN (IF Len(remainder) = 1 THEN params ELSE Append(params, slice_from(remainder, 1)))
    ELSE LET idx == find(remainder, Space) IN
         IF idx >= 0
         THEN take_params(slice_from(remainder, idx + 1),
                          IF idx = 0 THEN params ELSE Append(params, slice(remainder, 0, idx)))
         ELSE Append(params, remainder)

\* parser::parse_syntax
parse_syntax(s) ==
    IF bad_length(s) THEN SyntaxErr("bad command length")
    ELSE IF ~ends_with_crlf(s) THEN SyntaxErr("command doesn't end with CR LF")
    ELSE LET trimmed == trim_right(s) IN
         IF starts_with(trimmed, Colon) /\ find(trimmed, Space) < 0
         THEN SyntaxErr("only command prefix given")
         ELSE LET pre == IF starts_with(trimmed, Colon) THEN take_prefix(trimmed)
                         ELSE [prefix |-> None, remainder |-> trimmed]
              IN  IF Len(pre.remainder) < 1 THEN SyntaxErr("no command specified")
                  ELSE LET cmd == take_command(pre.remainder)
                       IN  Syntax(pre.prefix, cmd.command, take_params(cmd.remainder, <<>>))

\* ------------------------------------- typed requests and their wire form
Comma == 44

\* The command words, as bytes.
W_JOIN == <<74, 79, 73, 78>>
W_PART == <<80, 65, 82, 84>>
W_MODE == <<77, 79, 68, 69>>
W_PONG == <<80, 79, 78, 71>>
W_PRIVMSG == <<80, 82, 73, 86, 77, 83, 71>>

\* s.split(sep)
RECURSIVE split(_, _)
split(s, sep) ==
    IF find(s, sep) < 0 THEN <<s>>
    ELSE <<slice(s, 0, find(s, sep))>> \o split(slice_from(s, find(s, sep) + 1), sep)

\* [..].join(sep)
RECURSIVE join_with(_, _)
join_with(list, sep) ==
    IF list = <<>> THEN <<>>
    ELSE IF Len(list) = 1 THEN list[1]
    ELSE list[1] \o <<sep>> \o join_with(Tail(list), sep)

\* Requests::Join, Part, Mode, Privmsg, Pong and the JoinChannels of a Join.
PartAll == [kind |-> "PartAll", names |-> <<>>, keys |-> <<>>]
ChannelsOf(names) == [kind |-> "Channels", names |-> names, keys |-> <<>>]
KeyedChannels(names, keys) == [kind |-> "KeyedChannels", names |-> names, keys |-> keys]
Join(join) == [cmd |-> "JOIN", join |-> join]
Part(channels, message) == [cmd |-> "PART", channels |-> channels, message |-> message]
Mode(target, mode_string, mode_args) ==
    [cmd |-> "MODE", mode_target |-> target, mode_string |-> mode_string, mode_args |-> mode_args]
Privmsg(targets, message) == [cmd |-> "PRIVMSG", targets |-> targets, text |-> message]
Pong(originator, target) == [cmd |-> "PONG", originator |-> originator, target |-> target]

\* The result of reading a request from a line, and no line read yet.
NoRequest == [tag |-> "None", req |-> [cmd |-> "NONE"]]
RequestOk(req) == [tag |-> "Ok", req |-> req]
RequestErr == [tag |-> "Err", req |-> [cmd |-> "NONE"]]

\* The i-th parameter, if there is one.
OptParam(params, i) == IF Len(params) >= i THEN Some(params[i]) ELSE None

\* The typed request of a parsed line: the command word selects the variant
\* and the parameters fill its fields; JOIN 0 is PartAll, a JOIN with a key
\* list pairs names and keys by position.
parse_request(syntax) ==
    IF syntax.tag # "Ok" \/ syntax.params = <<>> THEN RequestErr
    ELSE LET p == syntax.params IN
    CASE syntax.command = W_JOIN ->
           IF p[1] = <<48>> THEN RequestOk(Join(PartAll))
           ELSE IF Len(p) = 1 THEN RequestOk(Join(ChannelsOf(split(p[1], Comma))))
           ELSE IF Len(split(p[1], Comma)) # Len(split(p[2], Comma)) THEN RequestErr
           ELSE RequestOk(Join(KeyedChannels(split(p[1], Comma), split(p[2], Comma))))
      [] syntax.command = W_PART -> RequestOk(Part(split(p[1], Comma), OptParam(p, 2)))
      [] syntax.command = W_MODE -> RequestOk(Mode(p[1], OptParam(p, 2), OptParam(p, 3)))
      [] syntax.command = W_PONG -> RequestOk(Pong(p[1], OptParam(p, 2)))
      [] syntax.command = W_PRIVMSG ->
           IF Len(p) < 2 THEN RequestErr ELSE RequestOk(Privmsg(split(p[1], Comma), p[2]))
      [] OTHER -> RequestErr

\* The outcome of a Display::fmt: the text written, or a panic.
FmtOk(text) == [tag |-> "Ok", text |-> text]
FmtPanic == [tag |-> "Panic", text |-> <<>>]

\* impl Display for Join
Join_fmt(self) ==
    CASE self.join.kind = "PartAll" -> FmtOk(<<>>)
      [] self.join.kind = "KeyedChannels" -> FmtOk(<<>>)
      [] self.join.kind = "Channels" ->
           FmtOk(W_JOIN \o <<Space>> \o join_with(self.join.names, Comma))

\* impl Display for Part
Part_fmt(self) ==
    IF Len(self.channels) # 1 THEN FmtPanic
    ELSE FmtOk(W_PART \o <<Space>> \o self.channels[1]
               \o (IF IsSome(self.message) THEN <<Space, Colon>> \o Unwrap(self.message) ELSE <<>>))

\* impl Display for Mode
Mode_fmt(self) ==
    FmtOk(W_MODE \o <<Space>> \o self.mode_target
          \o (IF IsSome(self.mode_string) THEN <<Space>> \o Unwrap(self.mode_string) ELSE <<>>)
          \o (IF IsSome(self.mode_args) THEN <<Space, Colon>> \o Unwrap(self.mode_args) ELSE <<>>))

\* impl Display for Privmsg
Privmsg_fmt(self) ==
    IF Len(self.targets) # 1 THEN FmtPanic
    ELSE FmtOk(W_PRIVMSG \o <<Space>> \o self.targets[1] \o <<Space>> \o self.text)

\* impl Display for Pong
Pong_fmt(self) ==
    FmtOk(W_PONG \o <<Space>> \o self.originator
          \o (IF IsSome(self.target) THEN <<Space, Colon>> \o Unwrap(self.target) ELSE <<>>))

\* format!("{}", m) for the request of a message.
Request_fmt(req) ==
    CASE req.cmd = "JOIN" -> Join_fmt(req)
      [] req.cmd = "PART" -> Part_fmt(req)
      [] req.cmd = "MODE" -> Mode_fmt(req)
      [] req.cmd = "PRIVMSG" -> Privmsg_fmt(req)
      [] req.cmd = "PONG" -> Pong_fmt(req)

\* Utf8CrlfCodec::encode of one message.
encode(message) == message \o <<CR, LF>>

\* What reaches the wire: nothing yet, the encoded line, or nothing at all
\* because the task panicked while formatting.
NotWritten == [tag |-> "None", bytes |-> <<>>]
Wrote(bytes) == [tag |-> "Ok", bytes |-> bytes]
WritePanic == [tag |-> "Panic", bytes |-> <<>>]

\* The serialization future for one request.
serialize(req) ==
    IF Request_fmt(req).tag = "Ok" THEN Wrote(encode(Request_fmt(req).text)) ELSE WritePanic

\* ------------------------------------------------------ the reply catalog
\* enum Reply: every reply with its numeric code.
Reply == {
    [name |-> "ERR_NOSUCHNICK", code |-> 401],
    [name |-> "ERR_NOSUCHSERVER", code |-> 402],
    [name |-> "ERR_NOSUCHCHANNEL", code |-> 403],
    [name |-> "ERR_CANNOTSENDTOCHAN", code |-> 404],
    [name |-> "ERR_TOOMANYCHANNELS", code |-> 405],
    [name |-> "ERR_WASNOSUCHNICK", code |-> 406],
    [name |-> "ERR_TOOMANYTARGETS", code |-> 407],
    [name |-> "ERR_NOORIGIN", code |-> 409],
    [name |-> "ERR_NORECIPIENT", code |-> 411],
    [name |-> "ERR_NOTEXTTOSEND", code |-> 412],
    [name |-> "ERR_NOTOPLEVEL", code |-> 413],
    [name |-> "ERR_WILDTOPLEVEL", code |-> 414],
    [name |-> "ERR_UNKNOWNCOMMAND", code |-> 421],
    [name |-> "ERR_NOMOTD", code |-> 422],
    [name |-> "ERR_NOADMININFO", code |-> 423],
    [name |-> "ERR_FILEERROR", code |-> 424],
    [name |-> "ERR_NONICKNAMEGIVEN", code |-> 431],
    [name |-> "ERR_ERRONEUSNICKNAME", code |-> 432],
    [name |-> "ERR_NICKNAMEINUSE", code |-> 433],
    [name |-> "ERR_NICKCOLLISION", code |-> 436],
    [name |-> "ERR_USERNOTINCHANNEL", code |-> 441],
    [name |-> "ERR_NOTONCHANNEL", code |-> 442],
    [name |-> "ERR_USERONCHANNEL", code |-> 443],
    [name |-> "ERR_NOLOGIN", code |-> 444],
    [name |-> "ERR_SUMMONDISABLED", code |-> 445],
    [name |-> "ERR_USERSDISABLED", code |-> 446],
    [name |-> "ERR_NOTREGISTERED", code |-> 451],
    [name |-> "ERR_NEEDMOREPARAMS", code |-> 461],
    [name |-> "ERR_ALREADYREGISTRED", code |-> 462],
    [name |-> "ERR_NOPERMFORHOST", code |-> 463],
    [name |-> "ERR_PASSWDMISMATCH", code |-> 464],
    [name |-> "ERR_YOUREBANNEDCREEP", code |-> 465],
    [name |-> "ERR_KEYSET", code |-> 467],
    [name |-> "ERR_CHANNELISFULL", code |-> 471],
    [name |-> "ERR_UNKNOWNMODE", code |-> 472],
    [name |-> "ERR_INVITEONLYCHAN", code |-> 473],
    [name |-> "ERR_BANNEDFROMCHAN", code |-> 474],
    [name |-> "ERR_BADCHANNELKEY", code |-> 475],
    [name |-> "ERR_NOPRIVILEGES", code |-> 481],
    [name |-> "ERR_CHANOPRIVSNEEDED", code |-> 482],
    [name |-> "ERR_CANTKILLSERVER", code |-> 483],
    [name |-> "ERR_NOOPERHOST", code |-> 491],
    [name |-> "ERR_UMODEUNKNOWNFLAG", code |-> 501],
    [name |-> "ERR_USERSDONTMATCH", code |-> 502],
    [name |-> "RPL_NONE", code |-> 300],
    [name |-> "RPL_USERHOST", code |-> 302],
    [name |-> "RPL_ISON", code |-> 303],
    [name |-> "RPL_AWAY", code |-> 301],
    [name |-> "RPL_UNAWAY", code |-> 305],
    [name |-> "RPL_NOWAWAY", code |-> 306],
    [name |-> "RPL_WHOISUSER", code |-> 311],
    [name |-> "RPL_WHOISSERVER", code |-> 312],
    [name |-> "RPL_WHOISOPERATOR", code |-> 313],
    [name |-> "RPL_WHOISIDLE", code |-> 317],
    [name |-> "RPL_ENDOFWHOIS", code |-> 318],
    [name |-> "RPL_WHOISCHANNELS", code |-> 319],
    [name |-> "RPL_WHOWASUSER", code |-> 314],
    [name |-> "RPL_ENDOFWHOWAS", code |-> 369],
    [name |-> "RPL_LISTSTART", code |-> 321],
    [name |-> "RPL_LIST", code |-> 322],
    [name |-> "RPL_LISTEND", code |-> 323],
    [name |-> "RPL_CHANNELMODEIS", code |-> 324],
    [name |-> "RPL_NOTOPIC", code |-> 331],
    [name |-> "RPL_TOPIC", code |-> 332],
    [name |-> "RPL_INVITING", code |-> 341],
    [name |-> "RPL_SUMMONING", code |-> 342],
    [name |-> "RPL_VERSION", code |-> 351],
    [name |-> "RPL_WHOREPLY", code |-> 352],
    [name |-> "RPL_ENDOFWHO", code |-> 315],
    [name |-> "RPL_NAMREPLY", code |-> 353],
    [name |-> "RPL_ENDOFNAMES", code |-> 366],
    [name |-> "RPL_LINKS", code |-> 364],
    [name |-> "RPL_ENDOFLINKS", code |-> 365],
    [name |-> "RPL_BANLIST", code |-> 367],
    [name |-> "RPL_ENDOFBANLIST", code |-> 368],
    [name |-> "RPL_INFO", code |-> 371],
    [name |-> "RPL_ENDOFINFO", code |-> 374],
    [name |-> "RPL_MOTDSTART", code |-> 375],
    [name |-> "RPL_MOTD", code |-> 372],
    [name |-> "RPL_ENDOFMOTD", code |-> 376],
    [name |-> "RPL_YOUREOPER", code |-> 381],
    [name |-> "RPL_REHASHING", code |-> 382],
    [name |-> "RPL_TIME", code |-> 391],
    [name |-> "RPL_USERSSTART", code |-> 392],
    [name |-> "RPL_USERS", code |-> 393],
    [name |-> "RPL_ENDOFUSERS", code |-> 394],
    [name |-> "RPL_NOUSERS", code |-> 395],
    [name |-> "RPL_TRACELINK", code |-> 200],
    [name |-> "RPL_TRACECONNECTING", code |-> 201],
    [name |-> "RPL_TRACEHANDSHAKE", code |-> 202],
    [name |-> "RPL_TRACEUNKNOWN", code |-> 203],
    [name |-> "RPL_TRACEOPERATOR", code |-> 204],
    [name |-> "RPL_TRACEUSER", code |-> 205],
    [name |-> "RPL_TRACESERVER", code |-> 206],
    [name |-> "RPL_TRACENEWTYPE", code |-> 208],
    [name |-> "RPL_TRACELOG", code |-> 261],
    [name |-> "RPL_STATSLINKINFO", code |-> 211],
    [name |-> "RPL_STATSCOMMANDS", code |-> 212],
    [name |-> "RPL_STATSCLINE", code |-> 213],
    [name |-> "RPL_STATSNLINE", code |-> 214],
    [name |-> "RPL_STATSILINE", code |-> 215],
    [name |-> "RPL_STATSKLINE", code |-> 216],
    [name |-> "RPL_STATSYLINE", code |-> 218],
    [name |-> "RPL_ENDOFSTATS", code |-> 219],
    [name |-> "RPL_STATSLLINE", code |-> 241],
    [name |-> "RPL_STATSUPTIME", code |-> 242],
    [name |-> "RPL_STATSOLINE", code |-> 243],
    [name |-> "RPL_STATSHLINE", code |-> 244],
    [name |-> "RPL_UMODEIS", code |-> 221],
    [name |-> "RPL_LUSERCLIENT", code |-> 251],
    [name |-> "RPL_LUSEROP", code |-> 252],
    [name |-> "RPL_LUSERUNKNOWN", code |-> 253],
    [name |-> "RPL_LUSERCHANNELS", code |-> 254],
    [name |-> "RPL_LUSERME", code |-> 255],
    [name |-> "RPL_ADMINME", code |-> 256],
    [name |-> "RPL_ADMINLOC1", code |-> 257],
    [name |-> "RPL_ADMINLOC2", code |-> 258],
    [name |-> "RPL_ADMINEMAIL", code |-> 259],
    [name |-> "RPL_TRACECLASS", code |-> 209],
    [name |-> "RPL_STATSQLINE", code |-> 217],
    [name |-> "RPL_SERVICEINFO", code |-> 231],
    [name |-> "RPL_ENDOFSERVICES", code |-> 232],
    [name |-> "RPL_SERVICE", code |-> 233],
    [name |-> "RPL_SERVLIST", code |-> 234],
    [name |-> "RPL_SERVLISTEND", code |-> 235],
    [name |-> "RPL_WHOISCHANOP", code |-> 316],
    [name |-> "RPL_KILLDONE", code |-> 361],
    [name |-> "RPL_CLOSING", code |-> 362],
    [name |-> "RPL_CLOSEEND", code |-> 363],
    [name |-> "RPL_INFOSTART", code |-> 373],
    [name |-> "RPL_MYPORTIS", code |-> 384],
    [name |-> "ERR_YOUWILLBEBANNED", code |-> 466],
    [name |-> "ERR_BADCHANMASK", code |-> 476],
    [name |-> "ERR_NOSERVICEHOST", code |-> 492]
}

\* A command token as typed: its spelling in upper case, and how it was cased.
Casings == {"upper", "lower", "mixed"}
Token(text, casing) == [text |-> text, casing |-> casing]

\* str::to_uppercase
to_uppercase(s) == s.text

\* The arms of the match in Reply::from_str, in source order: the pattern and
\* the variant it yields.
ReplyArms == <<
    <<"ERR_NOSUCHNICK", "ERR_NOSUCHNICK">>, <<"401", "ERR_NOSUCHNICK">>,
    <<"ERR_NOSUCHSERVER", "ERR_NOSUCHSERVER">>, <<"402", "ERR_NOSUCHSERVER">>,
    <<"ERR_NOSUCHCHANNEL", "ERR_NOSUCHCHANNEL">>, <<"403", "ERR_NOSUCHCHANNEL">>,
    <<"ERR_CANNOTSENDTOCHAN", "ERR_CANNOTSENDTOCHAN">>, <<"404", "ERR_CANNOTSENDTOCHAN">>,
    <<"ERR_TOOMANYCHANNELS", "ERR_TOOMANYCHANNELS">>, <<"405", "ERR_TOOMANYCHANNELS">>,
    <<"ERR_WASNOSUCHNICK", "ERR_WASNOSUCHNICK">>, <<"406", "ERR_WASNOSUCHNICK">>,
    <<"ERR_TOOMANYTARGETS", "ERR_TOOMANYTARGETS">>, <<"407", "ERR_TOOMANYTARGETS">>,
    <<"ERR_NOORIGIN", "ERR_NOORIGIN">>, <<"409", "ERR_NOORIGIN">>,
    <<"ERR_NORECIPIENT", "ERR_NORECIPIENT">>, <<"411", "ERR_NORECIPIENT">>,
    <<"ERR_NOTEXTTOSEND", "ERR_NOTEXTTOSEND">>, <<"412", "ERR_NOTEXTTOSEND">>,
    <<"ERR_NOTOPLEVEL", "ERR_NOTOPLEVEL">>, <<"413", "ERR_NOTOPLEVEL">>,
    <<"ERR_WILDTOPLEVEL", "ERR_WILDTOPLEVEL">>, <<"414", "ERR_WILDTOPLEVEL">>,
    <<"ERR_UNKNOWNCOMMAND", "ERR_UNKNOWNCOMMAND">>, <<"421", "ERR_UNKNOWNCOMMAND">>,
    <<"ERR_NOMOTD", "ERR_NOMOTD">>, <<"422", "ERR_NOMOTD">>,
    <<"ERR_NOADMININFO", "ERR_NOADMININFO">>, <<"423", "ERR_NOADMININFO">>,
    <<"ERR_FILEERROR", "ERR_FILEERROR">>, <<"424", "ERR_FILEERROR">>,
    <<"ERR_NONICKNAMEGIVEN", "ERR_NONICKNAMEGIVEN">>, <<"431", "ERR_NONICKNAMEGIVEN">>,
    <<"ERR_ERRONEUSNICKNAME", "ERR_ERRONEUSNICKNAME">>, <<"432", "ERR_ERRONEUSNICKNAME">>,
    <<"ERR_NICKNAMEINUSE", "ERR_NICKNAMEINUSE">>, <<"433", "ERR_NICKNAMEINUSE">>,
    <<"ERR_NICKCOLLISION", "ERR_NICKCOLLISION">>, <<"436", "ERR_NICKCOLLISION">>,
    <<"ERR_USERNOTINCHANNEL", "ERR_USERNOTINCHANNEL">>, <<"441", "ERR_USERNOTINCHANNEL">>,
    <<"ERR_NOTONCHANNEL", "ERR_NOTONCHANNEL">>, <<"442", "ERR_NOTONCHANNEL">>,
    <<"ERR_USERONCHANNEL", "ERR_USERONCHANNEL">>, <<"443", "ERR_USERONCHANNEL">>,
    <<"ERR_NOLOGIN", "ERR_NOLOGIN">>, <<"444", "ERR_NOLOGIN">>,
    <<"ERR_SUMMONDISABLED", "ERR_SUMMONDISABLED">>, <<"445", "ERR_SUMMONDISABLED">>,
    <<"ERR_USERSDISABLED", "ERR_USERSDISABLED">>, <<"446", "ERR_USERSDISABLED">>,
    <<"ERR_NOTREGISTERED", "ERR_NOTREGISTERED">>, <<"451", "ERR_NOTREGISTERED">>,
    <<"ERR_NEEDMOREPARAMS", "ERR_NEEDMOREPARAMS">>, <<"461", "ERR_NEEDMOREPARAMS">>,
    <<"ERR_ALREADYREGISTRED", "ERR_ALREADYREGISTRED">>, <<"462", "ERR_ALREADYREGISTRED">>,
    <<"ERR_NOPERMFORHOST", "ERR_NOPERMFORHOST">>, <<"463", "ERR_NOPERMFORHOST">>,
    <<"ERR_PASSWDMISMATCH", "ERR_PASSWDMISMATCH">>, <<"464", "ERR_PASSWDMISMATCH">>,
    <<"ERR_YOUREBANNEDCREEP", "ERR_YOUREBANNEDCREEP">>, <<"465", "ERR_YOUREBANNEDCREEP">>,
    <<"ERR_KEYSET", "ERR_KEYSET">>, <<"467", "ERR_KEYSET">>,
    <<"ERR_CHANNELISFULL", "ERR_CHANNELISFULL">>, <<"471", "ERR_CHANNELISFULL">>,
    <<"ERR_UNKNOWNMODE", "ERR_UNKNOWNMODE">>, <<"472", "ERR_UNKNOWNMODE">>,
    <<"ERR_INVITEONLYCHAN", "ERR_INVITEONLYCHAN">>, <<"473", "ERR_INVITEONLYCHAN">>,
    <<"ERR_BANNEDFROMCHAN", "ERR_BANNEDFROMCHAN">>, <<"474", "ERR_BANNEDFROMCHAN">>,
    <<"ERR_BADCHANNELKEY", "ERR_BADCHANNELKEY">>, <<"475", "ERR_BADCHANNELKEY">>,
    <<"ERR_NOPRIVILEGES", "ERR_NOPRIVILEGES">>, <<"481", "ERR_NOPRIVILEGES">>,
    <<"ERR_CHANOPRIVSNEEDED", "ERR_CHANOPRIVSNEEDED">>, <<"482", "ERR_CHANOPRIVSNEEDED">>,
    <<"ERR_CANTKILLSERVER", "ERR_CANTKILLSERVER">>, <<"483", "ERR_CANTKILLSERVER">>,
    <<"ERR_NOOPERHOST", "ERR_NOOPERHOST">>, <<"491", "ERR_NOOPERHOST">>,
    <<"ERR_UMODEUNKNOWNFLAG", "ERR_UMODEUNKNOWNFLAG">>, <<"501", "ERR_UMODEUNKNOWNFLAG">>,
    <<"ERR_USERSDONTMATCH", "ERR_USERSDONTMATCH">>, <<"502", "ERR_USERSDONTMATCH">>,
    <<"RPL_NONE", "RPL_NONE">>, <<"300", "RPL_NONE">>,
    <<"RPL_USERHOST", "RPL_USERHOST">>, <<"302", "RPL_USERHOST">>,
    <<"RPL_ISON", "RPL_ISON">>, <<"303", "RPL_ISON">>,
    <<"RPL_AWAY", "RPL_AWAY">>, <<"301", "RPL_AWAY">>,
    <<"RPL_UNAWAY", "RPL_UNAWAY">>, <<"305", "RPL_UNAWAY">>,
    <<"RPL_NOWAWAY", "RPL_NOWAWAY">>, <<"306", "RPL_NOWAWAY">>,
    <<"RPL_WHOISUSER", "RPL_WHOISUSER">>, <<"311", "RPL_WHOISUSER">>,
    <<"RPL_WHOISSERVER", "RPL_WHOISSERVER">>, <<"312", "RPL_WHOISSERVER">>,
    <<"RPL_WHOISOPERATOR", "RPL_WHOISOPERATOR">>, <<"313", "RPL_WHOISOPERATOR">>,
    <<"RPL_WHOISIDLE", "RPL_WHOISIDLE">>, <<"317", "RPL_WHOISIDLE">>,
    <<"RPL_ENDOFWHOIS", "RPL_ENDOFWHOIS">>, <<"318", "RPL_ENDOFWHOIS">>,
    <<"RPL_WHOISCHANNELS", "RPL_WHOISCHANNELS">>, <<"319", "RPL_WHOISCHANNELS">>,
    <<"RPL_WHOWASUSER", "RPL_WHOWASUSER">>, <<"314", "RPL_WHOWASUSER">>,
    <<"RPL_ENDOFWHOWAS", "RPL_ENDOFWHOWAS">>, <<"369", "RPL_ENDOFWHOWAS">>,
    <<"RPL_LISTSTART", "RPL_LISTSTART">>, <<"321", "RPL_LISTSTART">>,
    <<"RPL_LIST", "RPL_LIST">>, <<"322", "RPL_LIST">>,
    <<"RPL_LISTEND", "RPL_LISTEND">>, <<"323", "RPL_LISTEND">>,
    <<"RPL_CHANNELMODEIS", "RPL_CHANNELMODEIS">>, <<"324", "RPL_CHANNELMODEIS">>,
    <<"RPL_NOTOPIC", "RPL_NOTOPIC">>, <<"331", "RPL_NOTOPIC">>,
    <<"RPL_TOPIC", "RPL_TOPIC">>, <<"332", "RPL_TOPIC">>,
    <<"RPL_INVITING", "RPL_INVITING">>, <<"341", "RPL_INVITING">>,
    <<"RPL_SUMMONING", "RPL_SUMMONING">>, <<"342", "RPL_SUMMONING">>,
    <<"RPL_VERSION", "RPL_VERSION">>, <<"351", "RPL_VERSION">>,
    <<"RPL_WHOREPLY", "RPL_WHOREPLY">>, <<"352", "RPL_WHOREPLY">>,
    <<"RPL_ENDOFWHO", "RPL_ENDOFWHO">>, <<"315", "RPL_ENDOFWHO">>,
    <<"RPL_NAMREPLY", "RPL_NAMREPLY">>, <<"353", "RPL_NAMREPLY">>,
    <<"RPL_ENDOFNAMES", "RPL_ENDOFNAMES">>, <<"366", "RPL_ENDOFNAMES">>,
    <<"RPL_LINKS", "RPL_LINKS">>, <<"364", "RPL_LINKS">>,
    <<"RPL_ENDOFLINKS", "RPL_ENDOFLINKS">>, <<"365", "RPL_ENDOFLINKS">>,
    <<"RPL_BANLIST", "RPL_BANLIST">>, <<"367", "RPL_BANLIST">>,
    <<"RPL_ENDOFBANLIST", "RPL_ENDOFBANLIST">>, <<"368", "RPL_ENDOFBANLIST">>,
    <<"RPL_INFO", "RPL_INFO">>, <<"371", "RPL_INFO">>,
    <<"RPL_ENDOFINFO", "RPL_ENDOFINFO">>, <<"374", "RPL_ENDOFINFO">>,
    <<"RPL_MOTDSTART", "RPL_MOTDSTART">>, <<"375", "RPL_MOTDSTART">>,
    <<"RPL_MOTD", "RPL_MOTD">>, <<"372", "RPL_MOTD">>,
    <<"RPL_ENDOFMOTD", "RPL_ENDOFMOTD">>, <<"376", "RPL_ENDOFMOTD">>,
    <<"RPL_YOUREOPER", "RPL_YOUREOPER">>, <<"381", "RPL_YOUREOPER">>,
    <<"RPL_REHASHING", "RPL_REHASHING">>, <<"382", "RPL_REHASHING">>,
    <<"RPL_TIME", "RPL_TIME">>, <<"391", "RPL_TIME">>,
    <<"RPL_USERSSTART", "RPL_USERSSTART">>, <<"392", "RPL_USERSSTART">>,
    <<"RPL_USERS", "RPL_USERS">>, <<"393", "RPL_USERS">>,
    <<"RPL_ENDOFUSERS", "RPL_ENDOFUSERS">>, <<"394", "RPL_ENDOFUSERS">>,
    <<"RPL_NOUSERS", "RPL_NOUSERS">>, <<"395", "RPL_NOUSERS">>,
    <<"RPL_TRACELINK", "RPL_TRACELINK">>, <<"200", "RPL_TRACELINK">>,
    <<"RPL_TRACECONNECTING", "RPL_TRACECONNECTING">>, <<"201", "RPL_TRACECONNECTING">>,
    <<"RPL_TRACEHANDSHAKE", "RPL_TRACEHANDSHAKE">>, <<"202", "RPL_TRACEHANDSHAKE">>,
    <<"RPL_TRACEUNKNOWN", "RPL_TRACEUNKNOWN">>, <<"203", "RPL_TRACEUNKNOWN">>,
    <<"RPL_TRACEOPERATOR", "RPL_TRACEOPERATOR">>, <<"204", "RPL_TRACEOPERATOR">>,
    <<"RPL_TRACEUSER", "RPL_TRACEUSER">>, <<"205", "RPL_TRACEUSER">>,
    <<"RPL_TRACESERVER", "RPL_TRACESERVER">>, <<"206", "RPL_TRACESERVER">>,
    <<"RPL_TRACENEWTYPE", "RPL_TRACENEWTYPE">>, <<"208", "RPL_TRACENEWTYPE">>,
    <<"RPL_TRACELOG", "RPL_TRACELOG">>, <<"261", "RPL_TRACELOG">>,
    <<"RPL_STATSLINKINFO", "RPL_STATSLINKINFO">>, <<"211", "RPL_STATSLINKINFO">>,
    <<"RPL_STATSCOMMANDS", "RPL_STATSCOMMANDS">>, <<"212", "RPL_STATSCOMMANDS">>,
    <<"RPL_STATSCLINE", "RPL_STATSCLINE">>, <<"213", "RPL_STATSCLINE">>,
    <<"RPL_STATSNLINE", "RPL_STATSNLINE">>, <<"214", "RPL_STATSNLINE">>,
    <<"RPL_STATSILINE", "RPL_STATSILINE">>, <<"215", "RPL_STATSILINE">>,
    <<"RPL_STATSKLINE", "RPL_STATSKLINE">>, <<"216", "RPL_STATSKLINE">>,
    <<"RPL_STATSYLINE", "RPL_STATSYLINE">>, <<"218", "RPL_STATSYLINE">>,
    <<"RPL_ENDOFSTATS", "RPL_ENDOFSTATS">>, <<"219", "RPL_ENDOFSTATS">>,
    <<"RPL_STATSLLINE", "RPL_STATSLLINE">>, <<"241", "RPL_STATSLLINE">>,
    <<"RPL_STATSUPTIME", "RPL_STATSUPTIME">>, <<"242", "RPL_STATSUPTIME">>,
    <<"RPL_STATSOLINE", "RPL_STATSOLINE">>, <<"243", "RPL_STATSOLINE">>,
    <<"RPL_STATSHLINE", "RPL_STATSHLINE">>, <<"244", "RPL_STATSHLINE">>,
    <<"RPL_UMODEIS", "RPL_UMODEIS">>, <<"221", "RPL_UMODEIS">>,
    <<"RPL_LUSERCLIENT", "RPL_LUSERCLIENT">>, <<"251", "RPL_LUSERCLIENT">>,
    <<"RPL_LUSEROP", "RPL_LUSEROP">>, <<"252", "RPL_LUSEROP">>,
    <<"RPL_LUSERUNKNOWN", "RPL_LUSERUNKNOWN">>, <<"253", "RPL_LUSERUNKNOWN">>,
    <<"RPL_LUSERCHANNELS", "RPL_LUSERCHANNELS">>, <<"254", "RPL_LUSERCHANNELS">>,
    <<"RPL_LUSERME", "RPL_LUSERME">>, <<"255", "RPL_LUSERME">>,
    <<"RPL_ADMINME", "RPL_ADMINME">>, <<"256", "RPL_ADMINME">>,
    <<"RPL_ADMINLOC1", "RPL_ADMINLOC1">>, <<"257", "RPL_ADMINLOC1">>,
    <<"RPL_ADMINLOC2", "RPL_ADMINLOC2">>, <<"258", "RPL_ADMINLOC2">>,
    <<"RPL_ADMINEMAIL", "RPL_ADMINEMAIL">>, <<"259", "RPL_ADMINEMAIL">>,
    <<"RPL_TRACECLASS", "RPL_TRACECLASS">>, <<"209", "RPL_TRACECLASS">>,
    <<"RPL_STATSQLINE", "RPL_STATSQLINE">>, <<"217", "RPL_STATSQLINE">>,
    <<"RPL_SERVICEINFO", "RPL_SERVICEINFO">>, <<"231", "RPL_SERVICEINFO">>,
    <<"RPL_ENDOFSERVICES", "RPL_ENDOFSERVICES">>, <<"232", "RPL_ENDOFSERVICES">>,
    <<"RPL_SERVICE", "RPL_SERVICE">>, <<"233", "RPL_SERVICE">>,
    <<"RPL_SERVLIST", "RPL_SERVLIST">>, <<"234", "RPL_SERVLIST">>,
    <<"RPL_SERVLISTEND", "RPL_SERVLISTEND">>, <<"235", "RPL_SERVLISTEND">>,
    <<"RPL_WHOISCHANOP", "RPL_WHOISCHANOP">>, <<"316", "RPL_WHOISCHANOP">>,
    <<"RPL_KILLDONE", "RPL_KILLDONE">>, <<"361", "RPL_KILLDONE">>,
    <<"RPL_CLOSING", "RPL_CLOSING">>, <<"362", "RPL_CLOSING">>,
    <<"RPL_CLOSEEND", "RPL_CLOSEEND">>, <<"363", "RPL_CLOSEEND">>,
    <<"RPL_INFOSTART", "RPL_INFOSTART">>, <<"373", "RPL_INFOSTART">>,
    <<"RPL_MYPORTIS", "RPL_MYPORTIS">>, <<"384", "RPL_MYPORTIS">>,
    <<"ERR_YOUWILLBEBANNED", "ERR_YOUWILLBEBANNED">>, <<"466", "ERR_YOUWILLBEBANNED">>,
    <<"ERR_BADCHANMASK", "ERR_BADCHANMASK">>, <<"476", "ERR_BADCHANMASK">>,
    <<"ERR_NOSERVICEHOST", "ERR_NOSERVICEHOST">>, <<"492", "ERR_NOSERVICEHOST">>
>>

\* The arms of the match in Response::from_str, in source order: those of
\* Reply::from_str followed by the replies of the registration burst.
ResponseArms == ReplyArms \o <<
    <<"RPL_WELCOME", "RPL_WELCOME">>, <<"001", "RPL_WELCOME">>,
    <<"RPL_YOURHOST", "RPL_YOURHOST">>, <<"002", "RPL_YOURHOST">>,
    <<"RPL_CREATED", "RPL_CREATED">>, <<"003", "RPL_CREATED">>,
    <<"RPL_MYINFO", "RPL_MYINFO">>, <<"004", "RPL_MYINFO">>,
    <<"RPL_ISUPPORT", "RPL_ISUPPORT">>, <<"005", "RPL_ISUPPORT">>,
    <<"RPL_BOUNCE", "RPL_BOUNCE">>, <<"010", "RPL_BOUNCE">>
>>

\* A match on a string: the first arm whose pattern is the string.
FirstArm(arms, text) ==
    IF \E i \in DOMAIN arms : arms[i][1] = text
    THEN Some(arms[CHOOSE i \in DOMAIN arms :
                     arms[i][1] = text /\ \A j \in 1..(i - 1) : arms[j][1] # text][2])
    ELSE None

\* Result<_, ParseError> of the command-level parsers.
Resolved(kind, variant) == [tag |-> "Ok", kind |-> kind, variant |-> variant]
Unresolved(kind) == [tag |-> "Err", kind |-> kind, variant |-> ""]

\* Reply::from_str
Reply_from_str(s) ==
    LET arm == FirstArm(ReplyArms, to_uppercase(s))
    IN  IF IsSome(arm) THEN Resolved("Reply", Unwrap(arm)) ELSE Unresolved("cannot parse reply string")

\* Response::from_str of a token with nothing after it.
Response_from_str(s) ==
    LET arm == FirstArm(ResponseArms, to_uppercase(s))
    IN  IF IsSome(arm) THEN Resolved("Resp", Unwrap(arm)) ELSE Unresolved("NotAResponse")

\* Request::from_str of a token with nothing after it: no parameters.
Request_from_str(s) ==
    CASE to_uppercase(s) \in {"NICK", "PASS", "USER", "SERVER", "OPER"} -> Unresolved("NeedMoreParams")
      [] to_uppercase(s) = "QUIT" -> Resolved("Req", "QUIT")
      [] OTHER -> Unresolved("UnrecognizedCommand")

\* Command::from_str
Command_from_str(s) ==
    LET req == Request_from_str(s)
        response == Response_from_str(s)
    IN  IF req.tag = "Ok" THEN req
        ELSE IF req.kind # "NotARequest" THEN req
        ELSE IF response.tag = "Ok" THEN response
        ELSE IF response.kind # "NotAResponse" THEN response
        ELSE Unresolved("UnrecognizedCommand")

\* ------------------------------------------------ Request::from_str, stepwise
W_NICK == <<78, 73, 67, 75>>
W_USER == <<85, 83, 69, 82>>
W_QUIT == <<81, 85, 73, 84>>

\* str::to_uppercase on the bytes of a string.
to_uppercase_bytes(s) == [i \in DOMAIN s |-> IF s[i] \in 97..122 THEN s[i] - 32 ELSE s[i]]

\* next_token: the text before the first space and the text after it.
next_token(s) ==
    IF find(s, Space) >= 0
    THEN [token |-> slice(s, 0, find(s, Space)), rest |-> slice_from(s, find(s, Space) + 1)]
    ELSE [token |-> s, rest |-> <<>>]

\* No call yet, and a call of Request::from_str(s) after its first next_token.
NoCall == [pc |-> "none", s |-> <<>>, command |-> <<>>, remainder |-> <<>>, params |-> <<>>,
           result |-> ""]
Called(s) ==
    [pc |-> "loop", s |-> s, command |-> next_token(s).token, remainder |-> next_token(s).rest,
     params |-> <<>>, result |-> ""]

\* params.push(p), the vector cut off at MaxParams items.
Push(params, p) == IF Len(params) < MaxParams THEN Append(params, p) ELSE params

\* One iteration of the while loop of Request::from_str.
loop_iteration(cl) ==
    IF starts_with(cl.remainder, Colon)
    THEN [cl EXCEPT !.pc = "match",
                    !.params = IF Len(cl.remainder) = 1 THEN @
                               ELSE Push(@, slice_from(cl.remainder, 1))]
    ELSE LET next == next_token(cl.s) IN
         [cl EXCEPT !.remainder = next.rest,
                    !.params = IF next.token = <<>> THEN @ ELSE Push(@, next.token)]

\* verify_at_least_params
verify_at_least_params(p, required) == Len(p) >= required

\* The match on the command of Request::from_str: the error kind, the
\* request made, or a panic where the code is unimplemented!().
request_match(command, params) ==
    CASE to_uppercase_bytes(command) = W_NICK ->
           IF verify_at_least_params(params, 1) THEN "NICK" ELSE "NeedMoreParams"
      [] to_uppercase_bytes(command) = W_USER ->
           IF verify_at_least_params(params, 4) THEN "panic" ELSE "NeedMoreParams"
      [] to_uppercase_bytes(command) = W_QUIT -> "QUIT"
      [] OTHER -> "UnrecognizedCommand"

\* No token resolved yet.
NoToken == Token("", "upper")
NotResolved == [reply |-> Unresolved(""), response |-> Unresolved(""), command |-> Unresolved("")]

\* ------------------------------------------------- the registry (Server)
\* Each operation below is one critical section of the registry's mutex and
\* is given as a function of the registry value it finds.

NewServer == [users |-> <<>>, channels |-> <<>>]

\* Insert or overwrite one key of a map.
MapPut(f, k, v) == [x \in DOMAIN f \cup {k} |-> IF x = k THEN v ELSE f[x]]

\* Remove one key of a map.
MapDel(f, k) == [x \in DOMAIN f \ {k} |-> f[x]]

\* The sequence s without the elements equal to x, order kept.
RECURSIVE Without(_, _)
Without(s, x) ==
    IF s = <<>> THEN <<>>
    ELSE IF s[1] = x THEN Without(Tail(s), x)
    ELSE <<s[1]>> \o Without(Tail(s), x)

\* Server::add_user(identifier, mailbox)
Server_add_user(srv, ident, tx) ==
    IF ident.nick \in DOMAIN srv.users
    THEN [ok |-> FALSE, server |-> srv]
    ELSE [ok |-> TRUE,
          server |-> [srv EXCEPT !.users =
                          MapPut(srv.users, ident.nick, [ident |-> ident, tx |-> tx])]]

\* Channel_remove with the deletion of an emptied channel left out.
Channel_remove_keeps_empty(chans, name, ident) ==
    [chans EXCEPT ![name].members = Without(chans[name].members, ident)]

\* A channel loses a member; it is deleted when its member count reaches zero.
Channel_remove(chans, name, ident) ==
    LET left == Without(chans[name].members, ident)
    IN  IF left = <<>> THEN MapDel(chans, name)
        ELSE [chans EXCEPT ![name].members = left]

RECURSIVE RemoveFromAll(_, _, _)
RemoveFromAll(chans, names, ident) ==
    IF names = {} THEN chans
    ELSE LET n == CHOOSE x \in names : TRUE
             next == IF n \in DOMAIN chans /\ ident \in Range(chans[n].members)
                     THEN Channel_remove(chans, n, ident)
                     ELSE chans
         IN  RemoveFromAll(next, names \ {n}, ident)

\* Server::remove_user(identifier)
Server_remove_user(srv, ident) ==
    [users |-> MapDel(srv.users, ident.nick),
     channels |-> RemoveFromAll(srv.channels, DOMAIN srv.channels, ident)]

JoinOk(topic, users) == [ok |-> TRUE, err |-> "", topic |-> topic, users |-> users]
JoinErr(e) == [ok |-> FALSE, err |-> e, topic |-> None, users |-> <<>>]

NewChannel(ident) == [key |-> None, topic |-> None, bans |-> {}, members |-> <<ident>>]

\* Server::join for one (channel_name, optional_key).
Channel_join(chans, ident, name, key) ==
    IF name \notin DOMAIN chans
    THEN [channels |-> MapPut(chans, name, NewChannel(ident)),
          result |-> JoinOk(None, <<ident>>)]
    ELSE LET ch == chans[name] IN
         IF IsSome(ch.key) /\ key # ch.key
         THEN [channels |-> chans, result |-> JoinErr("BadKey")]
         ELSE IF ident.nick \in ch.bans
         THEN [channels |-> chans, result |-> JoinErr("Banned")]
         ELSE IF ident \in Range(ch.members)
         THEN [channels |-> chans, result |-> JoinErr("AlreadyMember")]
         ELSE LET members == Append(ch.members, ident)
              IN  [channels |-> [chans EXCEPT ![name].members = members],
                   result |-> JoinOk(ch.topic, members)]

RECURSIVE Server_join_each(_, _, _, _)
Server_join_each(chans, ident, reqs, acc) ==
    IF reqs = <<>> THEN [channels |-> chans, results |-> acc]
    ELSE LET one == Channel_join(chans, ident, reqs[1][1], reqs[1][2])
         IN  Server_join_each(one.channels, ident, Tail(reqs), Append(acc, one.result))

\* Server::join(identifier, [(channel_name, optional_key)]): one Result per channel.
Server_join(srv, ident, reqs) ==
    LET all == Server_join_each(srv.channels, ident, reqs, <<>>)
    IN  [server |-> [srv EXCEPT !.channels = all.channels], results |-> all.results]

PartOk == [ok |-> TRUE, err |-> ""]
PartErr(e) == [ok |-> FALSE, err |-> e]

\* Channel_part leaving the channel in the registry when its last member parts.
Channel_part_keeps(chans, ident, name) ==
    IF name \notin DOMAIN chans
    THEN [channels |-> chans, result |-> PartErr("NoSuchChannel")]
    ELSE IF ident \notin Range(chans[name].members)
    THEN [channels |-> chans, result |-> PartErr("NotOnChannel")]
    ELSE [channels |-> [chans EXCEPT ![name].members = Without(@, ident)],
          result |-> PartOk]

\* Server::part for one channel name.
Channel_part(chans, ident, name) ==
    IF name \notin DOMAIN chans
    THEN [channels |-> chans, result |-> PartErr("NoSuchChannel")]
    ELSE IF ident \notin Range(chans[name].members)
    THEN [channels |-> chans, result |-> PartErr("NotOnChannel")]
    ELSE [channels |-> Channel_remove(chans, name, ident), result |-> PartOk]

RECURSIVE Server_part_each(_, _, _, _)
Server_part_each(chans, ident, names, acc) ==
    IF names = <<>> THEN [channels |-> chans, results |-> acc]
    ELSE LET one == Channel_part(chans, ident, names[1])
         IN  Server_part_each(one.channels, ident, Tail(names), Append(acc, one.result))

\* Server::part(identifier, [channel_name], message): one Result per channel.
Server_part(srv, ident, names, message) ==
    LET all == Server_part_each(srv.channels, ident, names, <<>>)
    IN  [server |-> [srv EXCEPT !.channels = all.channels], results |-> all.results]

\* The mailboxes a single-target send reaches: the user of a known nickname,
\* or every member of a known channel except the sender.
SendTargets(srv, sender, target) ==
    IF target \in DOMAIN srv.users THEN {srv.users[target].tx}
    ELSE IF target \in DOMAIN srv.channels
    THEN {srv.users[m.nick].tx : m \in {x \in Range(srv.channels[target].members) :
                                          x # sender /\ x.nick \in DOMAIN srv.users}}
    ELSE {}

\* An enqueue on a connection's bounded mpsc channel; a full mailbox or a
\* dropped receiver loses the event.
Enqueue(mb, rcpts, event) ==
    [c \in DOMAIN mb |->
        IF c \in rcpts /\ Len(mb[c]) < MaxMailbox /\ task[c].pc # "panicked"
                       /\ c \in connections
        THEN Append(mb[c], event) ELSE mb[c]]

\* Server::send(sender_identifier, targets, message)
Server_send(srv, mb, sender, targets, message) ==
    Enqueue(mb, SendTargets(srv, sender, targets[1]),
            <<IRCMessage(Some(sender), "PRIVMSG", <<targets, message>>)>>)

\* ------------------------------------------------------------ the requests

NickReq(n) == [cmd |-> "NICK", nickname |-> n]
UserReq(u, r) == [cmd |-> "USER", username |-> u, realname |-> r]
JoinReq(jt, chans) == [cmd |-> "JOIN", join |-> jt, keyed |-> chans]
PartReq(chans, m) == [cmd |-> "PART", channels |-> chans, message |-> m]
ModeReq(t, ms) == [cmd |-> "MODE", target |-> t, mode_string |-> ms]
PingReq(t) == [cmd |-> "PING", server |-> t]
PrivmsgReq(ts, m) == [cmd |-> "PRIVMSG", targets |-> ts, message |-> m]
OtherReq == [cmd |-> "TOPIC"]

\* The structured messages a socket line can parse to, over the channel names CH.
RequestsOver(CH) ==
    {NickReq(n) : n \in Nicks}
    \cup {UserReq(u, r) : u \in UserNames, r \in RealNames}
    \cup {JoinReq("PartAll", <<>>)}
    \cup {JoinReq("Channels", [i \in DOMAIN l |-> <<l[i], None>>]) :
              l \in SeqsUpTo(CH, MaxChannelsPerReq)}
    \cup {JoinReq("KeyedChannels", [i \in DOMAIN l |-> <<l[i], Some(k)>>]) :
              l \in SeqsUpTo(CH, MaxChannelsPerReq), k \in Keys}
    \cup {PartReq(l, m) : l \in SeqsUpTo(CH, MaxChannelsPerReq), m \in PartMessages}
    \cup {ModeReq(t, ms) : t \in Nicks, ms \in {None} \cup {Some(x) : x \in ModeStrings}}
    \cup {PingReq(t) : t \in PingTargets}
    \cup {PrivmsgReq(ts, m) : ts \in SeqsUpTo(Nicks \cup CH, MaxTargets), m \in Texts}
    \cup {OtherReq}

Requests == RequestsOver({ChannelNames[i] : i \in 1..MainChannels})

\* The requests of the registration phase.
RegistrationRequests ==
    {NickReq(n) : n \in Nicks} \cup {UserReq(u, r) : u \in UserNames, r \in RealNames}

\* The iteration orders of the User's channel set that a request can meet.
Orders(c, req) ==
    IF req.cmd = "JOIN" /\ req.join = "PartAll" THEN Perms(conn_type[c].channels) ELSE {<<>>}

\* ------------------------------------------------------------- replies

RPL_WELCOME(nick) == IRCMessage(None, "RPL_WELCOME", <<nick>>)
RPL_YOURHOST(nick) == IRCMessage(None, "RPL_YOURHOST", <<nick>>)
RPL_CREATED(nick) == IRCMessage(None, "RPL_CREATED", <<nick>>)
RPL_MYINFO == IRCMessage(None, "RPL_MYINFO", <<>>)

\* What a handler leaves behind: the connection's conn_type, the registry,
\* the mailboxes, the task's position, the replies returned and whether
\* add_user was called ("none", "ok", "err").
Outcome(conn, srv, mb, tk, reply, add) ==
    [conn |-> conn, server |-> srv, mailbox |-> mb, task |-> tk,
     reply |-> reply, add_user |-> add]

Returns(c, reply) == Outcome(conn_type[c], server, mailbox, Idle, reply, "none")

\* unimplemented!(), unreachable!() or a failed assert!: the task unwinds
\* with nothing written.
Panic(c) ==
    Outcome(conn_type[c], server, mailbox, [Idle EXCEPT !.pc = "panicked"], <<>>, "none")

\* ------------------------------------------------------------ registration

\* add_registration_info assigning the three arguments instead of merging them.
add_registration_info_overwrite(r, nickname, username, realname) ==
    [r EXCEPT !.nickname = nickname, !.username = username, !.realname = realname]

\* Connection::add_registration_info
add_registration_info(r, nickname, username, realname) ==
    [r EXCEPT !.nickname = IF IsSome(nickname) THEN nickname ELSE @,
              !.username = IF IsSome(username) THEN username ELSE @,
              !.realname = IF IsSome(realname) THEN realname ELSE @]

\* The welcome burst of a successful registration, in wire order.
WelcomeBurst(nick) ==
    <<RPL_WELCOME(nick), RPL_YOURHOST(nick), RPL_CREATED(nick), RPL_MYINFO>>

\* try_register with one arm changed: how the Ok arm sets conn_type and what it
\* returns, how the Err arm sets conn_type and what it returns.
try_register_variant(c, r, ok_conn, ok_reply, err_conn, err_reply) ==
    IF r.nickname = None \/ r.username = None \/ r.realname = None
    THEN Outcome(r, server, mailbox, Idle, <<>>, "none")
    ELSE LET ident == UserIdentifier(Unwrap(r.nickname), Unwrap(r.username),
                                     Unwrap(r.realname), Unwrap(r.hostname))
             added == Server_add_user(server, ident, c)
         IN  IF added.ok
             THEN Outcome(IF ok_conn = "client" THEN ClientOf(ident) ELSE r,
                          added.server, mailbox, Idle,
                          IF ok_reply = "burst" THEN WelcomeBurst(ident.nick)
                          ELSE <<RPL_YOURHOST(ident.nick), RPL_WELCOME(ident.nick),
                                 RPL_CREATED(ident.nick), RPL_MYINFO>>,
                          "ok")
             ELSE Outcome(IF err_conn = "keep" THEN r
                          ELSE IF err_conn = "client" THEN ClientOf(ident)
                          ELSE Registration(Unwrap(r.hostname)),
                          added.server, mailbox, Idle,
                          IF err_reply = "inuse"
                          THEN error_resp("ERR_NICKNAMEINUSE", <<ident.nick>>) ELSE <<>>,
                          "err")

\* The Err arm of add_user ignored: the connection becomes Client regardless.
try_register_ignoring_err(c, r) ==
    try_register_variant(c, r, "client", "burst", "client", "inuse")

\* The Err arm returning no reply.
try_register_silent(c, r) ==
    try_register_variant(c, r, "client", "burst", "keep", "none")

\* The Ok arm without the assignment to conn_type.
try_register_no_transition(c, r) ==
    try_register_variant(c, r, "keep", "burst", "keep", "inuse")

\* The Ok arm with the first two replies of the burst exchanged.
try_register_misordered(c, r) ==
    try_register_variant(c, r, "client", "swapped", "keep", "inuse")

\* The Err arm starting the registration record afresh.
try_register_forgetful(c, r) ==
    try_register_variant(c, r, "client", "burst", "fresh", "inuse")

\* Connection::try_register on the merged registration record r.
try_register(c, r) ==
    IF r.nickname = None \/ r.username = None \/ r.realname = None
    THEN Outcome(r, server, mailbox, Idle, <<>>, "none")
    ELSE LET ident == UserIdentifier(Unwrap(r.nickname), Unwrap(r.username),
                                     Unwrap(r.realname), Unwrap(r.hostname))
             added == Server_add_user(server, ident, c)
         IN  IF added.ok
             THEN Outcome(ClientOf(ident), added.server, mailbox, Idle,
                          WelcomeBurst(ident.nick), "ok")
             ELSE Outcome(r, added.server, mailbox, Idle,
                          error_resp("ERR_NICKNAMEINUSE", <<ident.nick>>), "err")

\* ------------------------------------------------------------ join and part

\* produce_join_messages with the RPL_NAMREPLY of the Ok arm left out.
produce_join_messages_no_names(user, channel_name, res) ==
    IF res.ok
    THEN <<IRCMessage(Some(user), "JOIN", <<channel_name>>),
           IRCMessage(None, "RPL_ENDOFNAMES", <<user.nick, channel_name>>)>>
    ELSE IF res.err = "BadKey"
    THEN error_resp("ERR_BADCHANNELKEY", <<user.nick, channel_name>>)
    ELSE IF res.err = "Banned"
    THEN error_resp("ERR_BANNEDFROMCHAN", <<user.nick, channel_name>>)
    ELSE <<>>

\* produce_join_messages with the AlreadyMember arm answering like a fresh join.
produce_join_messages_again(user, channel_name, res) ==
    IF res.ok \/ res.err = "AlreadyMember"
    THEN <<IRCMessage(Some(user), "JOIN", <<channel_name>>)>>
         \o (IF IsSome(res.topic)
             THEN <<IRCMessage(None, "RPL_TOPIC", <<user.nick, channel_name, Unwrap(res.topic)>>)>>
             ELSE <<>>)
         \o <<IRCMessage(None, "RPL_NAMREPLY",
                         <<user.nick, channel_name, [i \in DOMAIN res.users |-> res.users[i].nick]>>),
              IRCMessage(None, "RPL_ENDOFNAMES", <<user.nick, channel_name>>)>>
    ELSE IF res.err = "BadKey"
    THEN error_resp("ERR_BADCHANNELKEY", <<user.nick, channel_name>>)
    ELSE error_resp("ERR_BANNEDFROMCHAN", <<user.nick, channel_name>>)

\* produce_join_messages with RPL_TOPIC pushed after RPL_ENDOFNAMES.
produce_join_messages_topic_last(user, channel_name, res) ==
    IF res.ok
    THEN <<IRCMessage(Some(user), "JOIN", <<channel_name>>),
           IRCMessage(None, "RPL_NAMREPLY",
                      <<user.nick, channel_name, [i \in DOMAIN res.users |-> res.users[i].nick]>>),
           IRCMessage(None, "RPL_ENDOFNAMES", <<user.nick, channel_name>>)>>
         \o (IF IsSome(res.topic)
             THEN <<IRCMessage(None, "RPL_TOPIC", <<user.nick, channel_name, Unwrap(res.topic)>>)>>
             ELSE <<>>)
    ELSE IF res.err = "BadKey"
    THEN error_resp("ERR_BADCHANNELKEY", <<user.nick, channel_name>>)
    ELSE IF res.err = "Banned"
    THEN error_resp("ERR_BANNEDFROMCHAN", <<user.nick, channel_name>>)
    ELSE <<>>

\* Connection::produce_join_messages
produce_join_messages(user, channel_name, res) ==
    IF res.ok
    THEN <<IRCMessage(Some(user), "JOIN", <<channel_name>>)>>
         \o (IF IsSome(res.topic)
             THEN <<IRCMessage(None, "RPL_TOPIC", <<user.nick, channel_name, Unwrap(res.topic)>>)>>
             ELSE <<>>)
         \o <<IRCMessage(None, "RPL_NAMREPLY",
                         <<user.nick, channel_name, [i \in DOMAIN res.users |-> res.users[i].nick]>>),
              IRCMessage(None, "RPL_ENDOFNAMES", <<user.nick, channel_name>>)>>
    ELSE IF res.err = "BadKey"
    THEN error_resp("ERR_BADCHANNELKEY", <<user.nick, channel_name>>)
    ELSE IF res.err = "Banned"
    THEN error_resp("ERR_BANNEDFROMCHAN", <<user.nick, channel_name>>)
    ELSE <<>>

\* Connection::join, first half: the registry's join under the registry lock.
join(c, channels) ==
    LET joined == Server_join(server, identifier(c), channels)
    IN  Outcome(conn_type[c], joined.server, mailbox,
                [pc |-> "join", results |-> joined.results,
                 channels |-> channels, message |-> None],
                <<>>, "none")

\* join_finish with user.join() called for every result, Ok or not.
RECURSIVE join_finish_always(_, _, _, _, _)
join_finish_always(user, joined, channels, member_of, acc) ==
    IF joined = <<>> THEN [channels |-> member_of, reply |-> acc]
    ELSE join_finish_always(user, Tail(joined), Tail(channels),
                            member_of \cup {channels[1][1]},
                            acc \o produce_join_messages(user, channels[1][1], joined[1]))

\* Connection::join, second half: the User's own membership set and the replies.
RECURSIVE join_finish(_, _, _, _, _)
join_finish(user, joined, channels, member_of, acc) ==
    IF joined = <<>> THEN [channels |-> member_of, reply |-> acc]
    ELSE join_finish(user, Tail(joined), Tail(channels),
                     IF joined[1].ok THEN member_of \cup {channels[1][1]} ELSE member_of,
                     acc \o produce_join_messages(user, channels[1][1], joined[1]))

\* Connection::part, first half: the registry's part under the registry lock.
part(c, channels, message) ==
    LET parted == Server_part(server, identifier(c), channels, message)
    IN  Outcome(conn_type[c], parted.server, mailbox,
                [pc |-> "part", results |-> parted.results,
                 channels |-> channels, message |-> message],
                <<>>, "none")

\* part_finish with user.part() left out of the Ok arm.
RECURSIVE part_finish_keeps(_, _, _, _, _, _)
part_finish_keeps(user, parted, channels, message, member_of, acc) ==
    IF parted = <<>> THEN [channels |-> member_of, reply |-> acc]
    ELSE part_finish_keeps(user, Tail(parted), Tail(channels), message, member_of,
             Append(acc,
                 IF parted[1].ok
                 THEN IRCMessage(Some(user), "PART", <<<<channels[1]>>, message>>)
                 ELSE IF parted[1].err = "NoSuchChannel"
                 THEN IRCMessage(None, "ERR_NOSUCHCHANNEL", <<user.nick, channels[1]>>)
                 ELSE IRCMessage(None, "ERR_NOTONCHANNEL", <<user.nick, channels[1]>>)))

\* part_finish with the replies of the two Err arms exchanged.
RECURSIVE part_finish_confused(_, _, _, _, _, _)
part_finish_confused(user, parted, channels, message, member_of, acc) ==
    IF parted = <<>> THEN [channels |-> member_of, reply |-> acc]
    ELSE part_finish_confused(user, Tail(parted), Tail(channels), message,
             IF parted[1].ok THEN member_of \ {channels[1]} ELSE member_of,
             Append(acc,
                 IF parted[1].ok
                 THEN IRCMessage(Some(user), "PART", <<<<channels[1]>>, message>>)
                 ELSE IF parted[1].err = "NoSuchChannel"
                 THEN IRCMessage(None, "ERR_NOTONCHANNEL", <<user.nick, channels[1]>>)
                 ELSE IRCMessage(None, "ERR_NOSUCHCHANNEL", <<user.nick, channels[1]>>)))

\* Connection::part, second half: the User's own membership set and the replies.
RECURSIVE part_finish(_, _, _, _, _, _)
part_finish(user, parted, channels, message, member_of, acc) ==
    IF parted = <<>> THEN [channels |-> member_of, reply |-> acc]
    ELSE part_finish(user, Tail(parted), Tail(channels), message,
             IF parted[1].ok THEN member_of \ {channels[1]} ELSE member_of,
             Append(acc,
                 IF parted[1].ok
                 THEN IRCMessage(Some(user), "PART", <<<<channels[1]>>, message>>)
                 ELSE IF parted[1].err = "NoSuchChannel"
                 THEN IRCMessage(None, "ERR_NOSUCHCHANNEL", <<user.nick, channels[1]>>)
                 ELSE IRCMessage(None, "ERR_NOTONCHANNEL", <<user.nick, channels[1]>>)))

\* -------------------------------------------------------------------- mode

\* User::set_mode(&set, &modes): the mode set changes and the change is acknowledged.
set_mode(c, mode) ==
    LET flags == {mode[i] : i \in 2..Len(mode)}
        conn == [conn_type[c] EXCEPT !.modes = IF mode[1] = "+" THEN @ \cup flags ELSE @ \ flags]
    IN  Outcome(conn, server, mailbox, Idle,
                <<IRCMessage(None, "MODE", <<Unwrap(conn_type[c].nickname), mode>>)>>, "none")

\* A MODE handler that applies each flag as it reads it, so the flags before
\* an unrecognised one stay applied when the request is rejected.
mode_request_applying(c, req) ==
    LET nick == Unwrap(conn_type[c].nickname) IN
    IF req.mode_string = None THEN Returns(c, <<>>)
    ELSE IF req.target # nick
    THEN Returns(c, error_resp("ERR_USERSDONTMATCH", <<nick>>))
    ELSE LET mode == Unwrap(req.mode_string) IN
         IF Len(mode) < 2 \/ mode[1] \notin {"+", "-"}
         THEN Returns(c, error_resp("ERR_UMODEUNKNOWNFLAG", <<nick>>))
         ELSE IF \E i \in 2..Len(mode) : mode[i] \notin UserModes
         THEN [set_mode(c, mode) EXCEPT !.reply = error_resp("ERR_UMODEUNKNOWNFLAG", <<nick>>)]
         ELSE set_mode(c, mode)

\* process_irc_message, Command::MODE, once verify_registered!() has passed.
mode_request(c, req) ==
    LET nick == Unwrap(conn_type[c].nickname) IN
    IF req.mode_string = None THEN Returns(c, <<>>)
    ELSE IF req.target # nick
    THEN Returns(c, error_resp("ERR_USERSDONTMATCH", <<nick>>))
    ELSE LET mode == Unwrap(req.mode_string) IN
         IF Len(mode) < 2
         THEN Returns(c, error_resp("ERR_UMODEUNKNOWNFLAG", <<nick>>))
         ELSE IF mode[1] \notin {"+", "-"}
         THEN Returns(c, error_resp("ERR_UMODEUNKNOWNFLAG", <<nick>>))
         ELSE IF \E i \in 2..Len(mode) : mode[i] \notin UserModes
         THEN Returns(c, error_resp("ERR_UMODEUNKNOWNFLAG", <<nick>>))
         ELSE set_mode(c, mode)

\* ------------------------------------------------------ the request handler

\* verify_registered!()
NotRegistered(c) == Returns(c, error_resp("ERR_NOTREGISTERED", <<>>))

\* Command::JOIN with PartAll leaving only the first channel of the User's set.
join_request_first_only(c, req, order) ==
    IF ~registered(c) THEN NotRegistered(c)
    ELSE IF req.join = "PartAll" THEN part(c, IF order = <<>> THEN <<>> ELSE <<order[1]>>, None)
    ELSE join(c, req.keyed)

\* process_irc_message, Command::JOIN.  order is the iteration order of the
\* User's channel set.
join_request(c, req, order) ==
    IF ~registered(c) THEN NotRegistered(c)
    ELSE IF req.join = "PartAll" THEN part(c, order, None)
    ELSE join(c, req.keyed)

\* Command::NICK with no registered() test: a Client's NICK registers again.
nick_request_again(c, req) ==
    try_register(c, add_registration_info([conn_type[c] EXCEPT !.tag = "Registering"],
                                          Some(req.nickname), None, None))

\* process_irc_message, Command::NICK
nick_request(c, req) ==
    IF registered(c) THEN Panic(c)
    ELSE try_register(c, add_registration_info(conn_type[c], Some(req.nickname), None, None))

\* process_irc_message, Command::PART
part_request(c, req) ==
    IF ~registered(c) THEN Panic(c)
    ELSE part(c, req.channels, req.message)

\* process_irc_message, Command::PING
ping_request(c, req) ==
    IF IsSome(req.server) /\ Unwrap(req.server) # ServerHostname THEN Panic(c)
    ELSE Returns(c, <<IRCMessage(None, "PONG", <<ServerHostname>>)>>)

\* Command::PRIVMSG returning the message to the sender as well.
privmsg_request_echoing(c, req) ==
    IF Len(req.targets) > 1 THEN Panic(c)
    ELSE IF ~registered(c) THEN Panic(c)
    ELSE Outcome(conn_type[c], server,
                 Server_send(server, mailbox, identifier(c), req.targets, req.message),
                 Idle,
                 <<IRCMessage(Some(identifier(c)), "PRIVMSG", <<req.targets, req.message>>)>>,
                 "none")

\* process_irc_message, Command::PRIVMSG
privmsg_request(c, req) ==
    IF Len(req.targets) > 1 THEN Panic(c)
    ELSE IF ~registered(c) THEN Panic(c)
    ELSE Outcome(conn_type[c], server,
                 Server_send(server, mailbox, identifier(c), req.targets, req.message),
                 Idle, <<>>, "none")

\* process_irc_message, Command::USER
user_request(c, req) ==
    IF registered(c)
    THEN Returns(c, error_resp("ERR_ALREADYREGISTRED", <<Unwrap(conn_type[c].nickname)>>))
    ELSE try_register(c, add_registration_info(conn_type[c], None,
                                               Some(req.username), Some(req.realname)))

\* Connection::process_irc_message, up to the handler's first release of the
\* registry lock.
process_irc_message(c, req, order) ==
    CASE req.cmd = "JOIN" -> join_request(c, req, order)
      [] req.cmd = "MODE" -> IF ~registered(c) THEN NotRegistered(c) ELSE mode_request(c, req)
      [] req.cmd = "NICK" -> nick_request(c, req)
      [] req.cmd = "PART" -> part_request(c, req)
      [] req.cmd = "PING" -> ping_request(c, req)
      [] req.cmd = "PRIVMSG" -> privmsg_request(c, req)
      [] req.cmd = "USER" -> user_request(c, req)
      [] OTHER -> Returns(c, <<>>)

\* A parse failure answered with an error reply.
parse_failure_answering(c) == Returns(c, <<IRCMessage(None, "ERR_UNKNOWNCOMMAND", <<>>)>>)

\* The process future when s.parse::<IRCMessage>() fails: a warning is logged
\* and no messages are returned; the Connection is not touched.
parse_failure(c) == Returns(c, <<>>)

\* disconnect without the call of remove_user.
disconnect_forgets(c) == server

\* Connection::disconnect
disconnect(c) ==
    IF registered(c) THEN Server_remove_user(server, identifier(c)) ELSE server

\* ----------------------------------------------------------------- actions

\* No mutex is held (owner 0) and no task has started.
NoLocks ==
    [map |-> 0, server |-> 0, conn |-> [c \in Conns |-> 0], pc |-> [c \in Conns |-> "none"]]

Init ==
    /\ connections = {}
    /\ conn_type = [c \in Conns |-> Closed]
    /\ task = [c \in Conns |-> [Idle EXCEPT !.pc = "closed"]]
    /\ server = NewServer
    /\ mailbox = [c \in Conns |-> <<>>]
    /\ log = [c \in Conns |-> <<>>]
    /\ src = <<>>
    /\ frame = Pending
    /\ received = <<>>
    /\ yielded = <<>>
    /\ eof = FALSE
    /\ input = <<>>
    /\ parsed = Unparsed
    /\ request = NoRequest
    /\ written = NotWritten
    /\ token = NoToken
    /\ resolved = NotResolved
    /\ call = NoCall
    /\ lock = NoLocks

\* handle_new_connection without the insert into the live-connections map.
Accept_without_insert(c) ==
    /\ task[c].pc = "closed"
    /\ conn_type' = [conn_type EXCEPT ![c] = Registration(HostOf(c))]
    /\ task' = [task EXCEPT ![c] = Idle]
    /\ UNCHANGED <<connections, server, mailbox, log, codec>>

\* handle_new_connection up to the spawn of the connection's future.
Accept(c) ==
    /\ task[c].pc = "closed"
    /\ connections' = connections \cup {c}
    /\ conn_type' = [conn_type EXCEPT ![c] = Registration(HostOf(c))]
    /\ task' = [task EXCEPT ![c] = Idle]
    /\ UNCHANGED <<server, mailbox, log, codec>>

\* The process future on ConnectionEvent::Socket: one parsed line is handled.
Handle(c, req, order) ==
    /\ task[c].pc = "idle"
    /\ LET out == process_irc_message(c, req, order) IN
         /\ conn_type' = [conn_type EXCEPT ![c] = out.conn]
         /\ server' = out.server
         /\ mailbox' = out.mailbox
         /\ task' = [task EXCEPT ![c] = out.task]
    /\ UNCHANGED <<connections, codec>>

SocketLine(c, req) ==
    /\ \E order \in Orders(c, req) : Handle(c, req, order)
    /\ UNCHANGED log

\* The same step with the line and what it returned appended to the log.
Logged(req, out) == [req |-> req, reply |-> out.reply, add_user |-> out.add_user]

LoggedLine(c, req) ==
    /\ Len(log[c]) < MaxLines
    /\ \E order \in Orders(c, req) :
         /\ Handle(c, req, order)
         /\ log' = [log EXCEPT ![c] = Append(@, Logged(req, process_irc_message(c, req, order)))]

\* Connection::join after the registry lock is released.
JoinFinish(c) ==
    /\ task[c].pc = "join"
    /\ LET out == join_finish(identifier(c), task[c].results, task[c].channels,
                              conn_type[c].channels, <<>>) IN
         conn_type' = [conn_type EXCEPT ![c].channels = out.channels]
    /\ task' = [task EXCEPT ![c] = Idle]
    /\ UNCHANGED <<connections, server, mailbox, log, codec>>

\* Connection::part after the registry lock is released.
PartFinish(c) ==
    /\ task[c].pc = "part"
    /\ LET out == part_finish(identifier(c), task[c].results, task[c].channels,
                              task[c].message, conn_type[c].channels, <<>>) IN
         conn_type' = [conn_type EXCEPT ![c].channels = out.channels]
    /\ task' = [task EXCEPT ![c] = Idle]
    /\ UNCHANGED <<connections, server, mailbox, log, codec>>

\* The process future on ConnectionEvent::Event: process_system_event.
SystemEvent(c) ==
    /\ task[c].pc = "idle"
    /\ mailbox[c] # <<>>
    /\ mailbox' = [mailbox EXCEPT ![c] = Tail(@)]
    /\ UNCHANGED <<connections, conn_type, task, server, log, codec>>

\* The cleanup future's closure: the socket leaves the live-connections map,
\* disconnect() runs and the Connection and its mailbox are dropped.
Close(c) ==
    /\ task[c].pc = "idle"
    /\ connections' = connections \ {c}
    /\ server' = disconnect(c)
    /\ conn_type' = [conn_type EXCEPT ![c] = Closed]
    /\ task' = [task EXCEPT ![c] = [Idle EXCEPT !.pc = "closed"]]
    /\ mailbox' = [mailbox EXCEPT ![c] = <<>>]
    /\ UNCHANGED codec

\* The cleanup future: the socket stream ended or failed.
Cleanup(c) ==
    /\ Close(c)
    /\ UNCHANGED log

\* Every task, every request, every interleaving.
Next ==
    \E c \in Conns :
        \/ Accept(c)
        \/ \E req \in Requests : SocketLine(c, req)
        \/ JoinFinish(c)
        \/ PartFinish(c)
        \/ SystemEvent(c)
        \/ Cleanup(c)

Spec == Init /\ [][Next]_vars

\* The registration phase, logged: connections are accepted and send NICK and
\* USER lines in any order and any interleaving; none disconnects.
NextRegister ==
    \E c \in Conns :
        \/ Accept(c)
        \/ \E req \in RegistrationRequests : LoggedLine(c, req)

SpecRegister == Init /\ [][NextRegister]_vars

\* Mode changes, logged: connections register and, once they are Clients, send
\* MODE lines for every target and every mode string.
ModeRequests ==
    {ModeReq(t, ms) : t \in Nicks, ms \in {None} \cup {Some(x) : x \in ModeStrings}}

ModeLine(c, req) ==
    /\ conn_type[c].tag = "Client"
    /\ LoggedLine(c, req)

NextMode ==
    \E c \in Conns :
        \/ Accept(c)
        \/ \E req \in RegistrationRequests : LoggedLine(c, req)
        \/ \E req \in ModeRequests : ModeLine(c, req)

SpecMode == Init /\ [][NextMode]_vars

\* Sessions that end, logged at the end: connections register, join a channel
\* and reach the end of their stream; each cleanup appends the Connection it
\* dropped to the socket's log.
DisconnectRequests ==
    RegistrationRequests \cup {JoinReq("Channels", <<<<ChannelNames[1], None>>>>)}

Dropped(c) ==
    [req |-> [cmd |-> "EOF"], reply |-> <<>>, add_user |-> "none", conn |-> conn_type[c]]

LoggedCleanup(c) ==
    /\ Len(log[c]) < MaxDisconnects
    /\ Close(c)
    /\ log' = [log EXCEPT ![c] = Append(@, Dropped(c))]

NextDisconnect ==
    \E c \in Conns :
        \/ Accept(c)
        \/ \E req \in DisconnectRequests : SocketLine(c, req)
        \/ JoinFinish(c)
        \/ LoggedCleanup(c)

SpecDisconnect == Init /\ [][NextDisconnect]_vars

\* Channels with keys and ban lists.  A Channel carries a key and a ban list
\* that join() validates against; nothing in the connection handler sets them,
\* so they change here by steps of the registry's own.
ChannelKeys == Keys \cup {"j"}

SetKey(ch, key) ==
    /\ ch \in DOMAIN server.channels
    /\ server.channels[ch].key # key
    /\ server' = [server EXCEPT !.channels[ch].key = key]
    /\ UNCHANGED <<connections, conn_type, task, mailbox, log, codec>>

Ban(ch, nick) ==
    /\ ch \in DOMAIN server.channels
    /\ nick \notin server.channels[ch].bans
    /\ server' = [server EXCEPT !.channels[ch].bans = @ \cup {nick}]
    /\ UNCHANGED <<connections, conn_type, task, mailbox, log, codec>>

KeyedRequests ==
    RegistrationRequests
    \cup {req \in Requests : req.cmd = "JOIN" /\ req.join # "PartAll"}

NextKeyed ==
    \/ \E c \in Conns :
          \/ Accept(c)
          \/ \E req \in KeyedRequests : SocketLine(c, req)
          \/ JoinFinish(c)
    \/ \E ch \in Channels :
          \/ \E key \in {None} \cup {Some(k) : k \in ChannelKeys} : SetKey(ch, key)
          \/ \E nick \in Nicks : Ban(ch, nick)

SpecKeyed == Init /\ [][NextKeyed]_vars

\* Channels that come and go, logged when they go: Clients join and part one
\* channel, whose key may be set meanwhile; a PART that deletes the channel
\* appends the channel it deleted to the socket's log.
RecreateRequests ==
    DisconnectRequests \cup {PartReq(<<ChannelNames[1]>>, None)}

\* The channels of the registry that the step deletes.
Deleted ==
    {[name |-> n, channel |-> server.channels[n]] :
        n \in DOMAIN server.channels \ DOMAIN server'.channels}

RecreateLine(c, req) ==
    /\ Handle(c, req, <<>>)
    /\ log' = IF Deleted # {} /\ Len(log[c]) < MaxDisconnects
              THEN [log EXCEPT ![c] = Append(@, [req |-> req, reply |-> <<>>,
                                                 add_user |-> "none", deleted |-> Deleted])]
              ELSE log

NextRecreate ==
    \/ \E c \in Conns :
          \/ Accept(c)
          \/ \E req \in RecreateRequests : RecreateLine(c, req)
          \/ JoinFinish(c)
          \/ PartFinish(c)
    \/ \E ch \in Channels : \E k \in Keys : SetKey(ch, Some(k))

SpecRecreate == Init /\ [][NextRecreate]_vars

\* Channels with and without a topic: Clients join any of the channels, one or
\* two per JOIN, while the topic of a channel may be set or cleared.
Topics == {"t"}

SetTopic(ch, topic) ==
    /\ ch \in DOMAIN server.channels
    /\ server.channels[ch].topic # topic
    /\ server' = [server EXCEPT !.channels[ch].topic = topic]
    /\ UNCHANGED <<connections, conn_type, task, mailbox, log, codec>>

TopicRequests ==
    RegistrationRequests
    \cup {JoinReq("Channels", [i \in DOMAIN l |-> <<l[i], None>>]) :
              l \in SeqsUpTo(Channels, MaxChannelsPerReq)}

NextTopic ==
    \/ \E c \in Conns :
          \/ Accept(c)
          \/ \E req \in TopicRequests : SocketLine(c, req)
          \/ JoinFinish(c)
    \/ \E ch \in Channels : \E topic \in {None} \cup {Some(t) : t \in Topics} :
          SetTopic(ch, topic)

SpecTopic == Init /\ [][NextTopic]_vars

\* handle_new_connection for a SocketPair whose earlier task panicked: the
\* unwinding dropped that task's stream, so the peer can connect again from the
\* same address, and the insert replaces the entry the panicked task left.
Reaccept(c) ==
    /\ task[c].pc = "panicked"
    /\ connections' = connections \cup {c}
    /\ conn_type' = [conn_type EXCEPT ![c] = Registration(HostOf(c))]
    /\ task' = [task EXCEPT ![c] = Idle]
    /\ mailbox' = [mailbox EXCEPT ![c] = <<>>]
    /\ UNCHANGED <<server, log, codec>>

\* Connections that come back: connections register, end by end of stream or
\* by a panic (NICK from a Client), and their SocketPairs are accepted again.
NextAccept ==
    \E c \in Conns :
        \/ Accept(c)
        \/ Reaccept(c)
        \/ \E req \in RegistrationRequests : SocketLine(c, req)
        \/ Cleanup(c)

SpecAccept == Init /\ [][NextAccept]_vars

\* process_system_event with the messages of the event in reverse.
process_system_event_reversed(e) == [i \in DOMAIN e |-> e[Len(e) + 1 - i]]

\* Connection::process_system_event for Event::Message(m)
process_system_event(e) == e

\* The events enqueued on a connection's mailbox so far, and written from it.
Enqueued(c) == SelectSeq(log[c], LAMBDA l : l.kind = "enqueued")
FromMailbox(c) == SelectSeq(log[c], LAMBDA l : l.kind = "event")

\* The n-th event sent to a connection: k messages that name n and their place.
EventOf(n, k) == [j \in 1..k |-> IRCMessage(None, "PRIVMSG", <<n, j>>)]

\* The number of entries in the logs of the first n connections.
RECURSIVE LogTotal(_)
LogTotal(n) == IF n = 0 THEN 0 ELSE Len(log[n]) + LogTotal(n - 1)

\* A sender's tx.send on a connection's mailbox, a queue of QueueLength events.
Deliver(c, k) ==
    /\ task[c].pc \notin {"closed", "panicked"}
    /\ Len(mailbox[c]) < QueueLength
    /\ LogTotal(NumConns) < MaxLog
    /\ LET e == EventOf(Len(Enqueued(c)) + 1, k) IN
         /\ mailbox' = [mailbox EXCEPT ![c] = Append(@, e)]
         /\ log' = [log EXCEPT ![c] = Append(@, [kind |-> "enqueued", item |-> e])]
    /\ UNCHANGED <<connections, conn_type, task, server, codec>>

\* ConnectionEvent::Event: the first event of the mailbox is processed and what
\* process_system_event returns is handed to the sink as one item.
EventWritten(c) ==
    /\ task[c].pc = "idle"
    /\ mailbox[c] # <<>>
    /\ mailbox' = [mailbox EXCEPT ![c] = Tail(@)]
    /\ log' = [log EXCEPT ![c] =
                   Append(@, [kind |-> "event", item |-> process_system_event(Head(mailbox[c]))])]
    /\ UNCHANGED <<connections, conn_type, task, server, codec>>

\* ConnectionEvent::Socket: the replies to a line are handed to the sink as
\* one item.
ReplyWritten(c, req) ==
    /\ LogTotal(NumConns) < MaxLog
    /\ Handle(c, req, <<>>)
    /\ log' = [log EXCEPT ![c] =
                   Append(@, [kind |-> "reply", item |-> process_irc_message(c, req, <<>>).reply])]

\* The mailbox and the socket of a connection, logged: events of one or two
\* messages are enqueued while the connection sends PING and MODE lines.
MailboxRequests == {PingReq(None)} \cup {ModeReq(n, None) : n \in Nicks}

NextMailbox ==
    \E c \in Conns :
        \/ Accept(c)
        \/ \E k \in 1..MaxEventMessages : Deliver(c, k)
        \/ EventWritten(c)
        \/ \E req \in MailboxRequests : ReplyWritten(c, req)

SpecMailbox == Init /\ [][NextMailbox]_vars

\* The end of a socket's stream.  A socket that has been read to its end has
\* one entry in its log, which holds the lines still in the read buffer.
AtEof(c) == log[c] # <<>>

EofRequests ==
    RegistrationRequests \cup {PrivmsgReq(<<n>>, t) : n \in Nicks, t \in Texts}

\* A line is read and handled while the socket is open.
OpenLine(c, req) ==
    /\ ~AtEof(c)
    /\ SocketLine(c, req)

\* The read returns 0 with the lines `lines` left in the buffer: the framed
\* stream switches to decode_eof.
SocketEof(c, lines) ==
    /\ task[c].pc = "idle"
    /\ ~AtEof(c)
    /\ log' = [log EXCEPT ![c] = <<[kind |-> "eof", buffered |-> lines]>>]
    /\ UNCHANGED <<connections, conn_type, task, server, mailbox, codec>>

\* decode_eof finds a whole line in the buffer: the process future handles it.
EofLine(c) ==
    /\ AtEof(c)
    /\ log[c][1].buffered # <<>>
    /\ Handle(c, Head(log[c][1].buffered), <<>>)
    /\ log' = [log EXCEPT ![c][1].buffered = Tail(@)]

\* decode_eof finds no line in the buffer and returns Err: select, the process
\* and serialization futures pass the error on, forward fails and the cleanup
\* closure runs.
EofError(c) ==
    /\ AtEof(c)
    /\ log[c][1].buffered = <<>>
    /\ Close(c)
    /\ log' = [log EXCEPT ![c] = <<>>]

NextEof ==
    \E c \in Conns :
        \/ Accept(c)
        \/ \E req \in EofRequests : OpenLine(c, req)
        \/ SystemEvent(c)
        \/ \E lines \in SeqsUpTo(EofRequests, MaxBuffered) : SocketEof(c, lines)
        \/ EofLine(c)
        \/ EofError(c)

\* The executor polls a task for as long as one of its streams is ready.
SpecEof ==
    /\ Init /\ [][NextEof]_vars
    /\ \A c \in Conns : WF_vars(EofLine(c)) /\ WF_vars(EofError(c)) /\ WF_vars(SystemEvent(c))

\* The mutexes: the live-connections map, the registry, and one per
\* Connection.  A lock() is a step that waits until the mutex has no owner; the
\* guard is dropped at the end of the statement or block that took it.
unlocked == <<service, src, frame, history, input, parsed, serial, catalog, call>>

\* connections.lock().unwrap().insert(..): the map's mutex is taken ...
LockMapInsert(c) ==
    /\ lock.pc[c] = "none"
    /\ lock.map = 0
    /\ lock' = [lock EXCEPT !.map = c, !.pc[c] = "insert"]
    /\ UNCHANGED unlocked

\* ... and dropped at the end of the statement; the task starts.
UnlockMapInsert(c) ==
    /\ lock.pc[c] = "insert"
    /\ lock' = [lock EXCEPT !.map = 0, !.pc[c] = "select"]
    /\ UNCHANGED unlocked

\* The process future: connection.lock() for process_irc_message or
\* process_system_event; the handler will call the registry or will not.
LockConnection(c, registry) ==
    /\ lock.pc[c] = "select"
    /\ lock.conn[c] = 0
    /\ lock' = [lock EXCEPT !.conn[c] = c,
                            !.pc[c] = IF registry THEN "wants_server" ELSE "handler"]
    /\ UNCHANGED unlocked

\* self.server.lock() in try_register, PRIVMSG, join and part.
LockServer(c) ==
    /\ lock.pc[c] = "wants_server"
    /\ lock.server = 0
    /\ lock' = [lock EXCEPT !.server = c, !.pc[c] = "registry"]
    /\ UNCHANGED unlocked

\* The registry call has returned and its guard is dropped: at the end of the
\* match in try_register, of the statement in PRIVMSG, of the block in join
\* and part.
UnlockServer(c) ==
    /\ lock.pc[c] = "registry"
    /\ lock' = [lock EXCEPT !.server = 0, !.pc[c] = "handler"]
    /\ UNCHANGED unlocked

\* The handler returns its messages and the Connection's guard is dropped.
UnlockConnection(c) ==
    /\ lock.pc[c] = "handler"
    /\ lock' = [lock EXCEPT !.conn[c] = 0, !.pc[c] = "write"]
    /\ UNCHANGED unlocked

\* The serialization future and forward: the messages go to the socket, and
\* the task waits for its socket or its mailbox again.
WriteSocket(c) ==
    /\ lock.pc[c] = "write"
    /\ lock' = [lock EXCEPT !.pc[c] = "select"]
    /\ UNCHANGED unlocked

\* The forwarded stream ends or fails: the cleanup closure starts.
StreamEnds(c) ==
    /\ lock.pc[c] = "select"
    /\ lock' = [lock EXCEPT !.pc[c] = "cleanup"]
    /\ UNCHANGED unlocked

\* connections_cleanup.lock().unwrap().remove(&socket)
LockMapRemove(c) ==
    /\ lock.pc[c] = "cleanup"
    /\ lock.map = 0
    /\ lock' = [lock EXCEPT !.map = c, !.pc[c] = "remove"]
    /\ UNCHANGED unlocked

\* The cleanup keeping the map's guard in a local until the closure returns.
UnlockMapRemove_keeping(c) ==
    /\ lock.pc[c] = "remove"
    /\ lock' = [lock EXCEPT !.pc[c] = "removed"]
    /\ UNCHANGED unlocked

\* The assert! is over and the map's guard is dropped.
UnlockMapRemove(c) ==
    /\ lock.pc[c] = "remove"
    /\ lock' = [lock EXCEPT !.map = 0, !.pc[c] = "removed"]
    /\ UNCHANGED unlocked

\* connection_cleanup.lock().unwrap().disconnect(), of a registered
\* connection or of one that is not.
LockConnectionCleanup(c, is_registered) ==
    /\ lock.pc[c] = "removed"
    /\ lock.conn[c] = 0
    /\ lock' = [lock EXCEPT !.conn[c] = c,
                            !.pc[c] = IF is_registered THEN "wants_remove_user"
                                      ELSE "disconnected"]
    /\ UNCHANGED unlocked

\* self.server.lock().unwrap().remove_user(..) in disconnect.
LockServerCleanup(c) ==
    /\ lock.pc[c] = "wants_remove_user"
    /\ lock.server = 0
    /\ lock' = [lock EXCEPT !.server = c, !.pc[c] = "remove_user"]
    /\ UNCHANGED unlocked

UnlockServerCleanup(c) ==
    /\ lock.pc[c] = "remove_user"
    /\ lock' = [lock EXCEPT !.server = 0, !.pc[c] = "disconnected"]
    /\ UNCHANGED unlocked

\* disconnect has returned; the Connection's guard is dropped and the task is
\* over.
UnlockConnectionCleanup(c) ==
    /\ lock.pc[c] = "disconnected"
    /\ lock' = [lock EXCEPT !.conn[c] = 0, !.pc[c] = "none"]
    /\ UNCHANGED unlocked

NextLocks ==
    \E c \in Conns :
        \/ LockMapInsert(c)
        \/ UnlockMapInsert(c)
        \/ \E registry \in BOOLEAN : LockConnection(c, registry)
        \/ LockServer(c)
        \/ UnlockServer(c)
        \/ UnlockConnection(c)
        \/ WriteSocket(c)
        \/ StreamEnds(c)
        \/ LockMapRemove(c)
        \/ UnlockMapRemove(c)
        \/ \E is_registered \in BOOLEAN : LockConnectionCleanup(c, is_registered)
        \/ LockServerCleanup(c)
        \/ UnlockServerCleanup(c)
        \/ UnlockConnectionCleanup(c)

SpecLocks == Init /\ [][NextLocks]_vars

\* Several channels: Clients join any of the channels, one or two per JOIN, and
\* leave them all with JOIN 0.
PartAllRequests ==
    RegistrationRequests
    \cup {JoinReq("PartAll", <<>>)}
    \cup {JoinReq("Channels", [i \in DOMAIN l |-> <<l[i], None>>]) :
              l \in SeqsUpTo(Channels, MaxChannelsPerReq)}

NextPartAll ==
    \E c \in Conns :
        \/ Accept(c)
        \/ \E req \in PartAllRequests : SocketLine(c, req)
        \/ JoinFinish(c)
        \/ PartFinish(c)

SpecPartAll == Init /\ [][NextPartAll]_vars

\* The framed socket on its own: bytes arrive in the read buffer and decode is
\* called on it, until decode fails.
BufferRead(b) ==
    /\ frame.tag # "Err"
    /\ Len(src) < MaxBuf
    /\ src' = Append(src, b)
    /\ frame' = Pending
    /\ UNCHANGED <<service, input, parsed, serial, catalog, call, lock>>

DecodeCall ==
    /\ frame.tag # "Err"
    /\ src' = decode(src).src
    /\ frame' = decode(src).frame
    /\ UNCHANGED <<service, input, parsed, serial, catalog, call, lock>>

Receive(b) ==
    /\ BufferRead(b)
    /\ UNCHANGED history

Decode ==
    /\ DecodeCall
    /\ UNCHANGED history

NextCodec ==
    \/ \E b \in Bytes : Receive(b)
    \/ Decode

SpecCodec == Init /\ [][NextCodec]_vars

\* The framed socket observed from accept to end of stream: bytes arrive one
\* at a time, decode is called after a read or after a frame, and once the
\* socket has ended decode_eof is called until it fails.
FramedRead(b) ==
    /\ ~eof
    /\ Len(received) < MaxBuf
    /\ BufferRead(b)
    /\ received' = Append(received, b)
    /\ UNCHANGED <<yielded, eof>>

FramedDecode ==
    /\ ~eof
    /\ frame # DecodeOk(None)
    /\ DecodeCall
    /\ yielded' = Append(yielded, decode(src).frame)
    /\ UNCHANGED <<received, eof>>

FramedEof ==
    /\ frame.tag # "Err"
    /\ eof => frame.item # None
    /\ src' = decode_eof(src).src
    /\ frame' = decode_eof(src).frame
    /\ yielded' = Append(yielded, decode_eof(src).frame)
    /\ eof' = TRUE
    /\ UNCHANGED <<service, received, input, parsed, serial, catalog, call, lock>>

NextFramed ==
    \/ \E b \in Bytes : FramedRead(b)
    \/ FramedDecode
    \/ FramedEof

SpecFramed == Init /\ [][NextFramed]_vars

\* Lines that do not parse, among the lines of a registration: connections
\* are accepted and send NICK and USER lines and lines that fail to parse, in
\* any order; every line and what it returned is appended to the log.
BadLines == {<<>>, <<Space>>, W_JOIN, <<70, 79, 79>>}

\* s.parse::<IRCMessage>() is an Err.
Unparsable(line) == parse_request(parse_syntax(encode(line))).tag = "Err"

UnparsedLine == [cmd |-> "UNPARSED"]

\* The process future on ConnectionEvent::Socket for a line that fails to parse.
BadLine(c, line) ==
    /\ task[c].pc = "idle"
    /\ Unparsable(line)
    /\ Len(log[c]) < MaxLines
    /\ LET out == parse_failure(c) IN
         /\ conn_type' = [conn_type EXCEPT ![c] = out.conn]
         /\ server' = out.server
         /\ mailbox' = out.mailbox
         /\ task' = [task EXCEPT ![c] = out.task]
         /\ log' = [log EXCEPT ![c] = Append(@, Logged(UnparsedLine, out))]
    /\ UNCHANGED <<connections, codec>>

NextUnparsed ==
    \E c \in Conns :
        \/ Accept(c)
        \/ \E req \in RegistrationRequests : LoggedLine(c, req)
        \/ \E line \in BadLines : BadLine(c, line)

SpecUnparsed == Init /\ [][NextUnparsed]_vars

\* The parser on its own: a line is put together byte by byte, or is one of
\* the long lines around the length limit, and is then handed to parse_syntax.
LineBytes == {Colon, Space, 97, CR, LF}

\* A line of n letters and its terminator.
LongLine(n) == [i \in 1..n |-> 97] \o <<CR, LF>>

Type(b) ==
    /\ parsed = Unparsed
    /\ Len(input) < MaxInput
    /\ input' = Append(input, b)
    /\ UNCHANGED <<service, src, frame, history, parsed, serial, catalog, call, lock>>

TypeLong(n) ==
    /\ parsed = Unparsed
    /\ input = <<>>
    /\ input' = LongLine(n)
    /\ UNCHANGED <<service, src, frame, history, parsed, serial, catalog, call, lock>>

Parse ==
    /\ parsed = Unparsed
    /\ parsed' = parse_syntax(input)
    /\ UNCHANGED <<service, src, frame, history, input, serial, catalog, call, lock>>

NextParser ==
    \/ \E b \in LineBytes : Type(b)
    \/ \E n \in (MaxCommandLength - 3)..(MaxCommandLength - 1) : TypeLong(n)
    \/ Parse

SpecParser == Init /\ [][NextParser]_vars

\* Parsing and serializing typed requests: one wire line is read into a
\* request, and the request is written back.
ChannelTokens == {<<35, 97>>, <<35, 98>>}
TargetTokens == ChannelTokens \cup {<<97>>}
TextTokens == {<<98>>, <<98, Space, 99>>}
ModeTokens == {<<43, 107>>, <<43, 105>>}
KeyTokens == {<<107>>}

\* words separated by single spaces, then " :" and the trailing parameter
\* if there is one, then CRLF.
WireLine(words, trailing) ==
    join_with(words, Space)
    \o (IF IsSome(trailing) THEN <<Space, Colon>> \o Unwrap(trailing) ELSE <<>>)
    \o <<CR, LF>>

Trailing(tokens) == {None} \cup {Some(t) : t \in tokens}

\* The canonical lines of the requests the serializer supports.
CanonicalLines ==
    {WireLine(<<W_PART, ch>>, m) : ch \in ChannelTokens, m \in Trailing(TextTokens)}
    \cup {WireLine(<<W_PONG, o>>, t) : o \in TargetTokens, t \in Trailing(TargetTokens)}
    \cup {WireLine(<<W_PRIVMSG, t>>, Some(m)) : t \in TargetTokens, m \in TextTokens}
    \cup {WireLine(<<W_MODE, t>>, None) : t \in TargetTokens}
    \cup {WireLine(<<W_MODE, t, ms>>, a) : t \in TargetTokens, ms \in ModeTokens, a \in Trailing(KeyTokens)}
    \cup {WireLine(<<W_JOIN, ch>>, None) : ch \in ChannelTokens}

\* Comma lists of more than one channel.
ChannelLists ==
    {join_with(l, Comma) : l \in {q \in SeqsUpTo(ChannelTokens, MaxList) : Len(q) > 1}}

\* Lines whose requests the serializer is not meant to write.
OtherLines ==
    {WireLine(<<W_JOIN, <<48>>>>, None)}
    \cup {WireLine(<<W_JOIN, l>>, None) : l \in ChannelLists}
    \cup {WireLine(<<W_JOIN, ch, k>>, None) : ch \in ChannelTokens, k \in KeyTokens}
    \cup {WireLine(<<W_PART, l>>, m) : l \in ChannelLists, m \in Trailing(TextTokens)}
    \cup {WireLine(<<W_PRIVMSG, l>>, Some(m)) : l \in ChannelLists, m \in TextTokens}

Compose(line) ==
    /\ input = <<>>
    /\ input' = line
    /\ UNCHANGED <<service, src, frame, history, parsed, serial, catalog, call, lock>>

ParseRequest ==
    /\ input # <<>>
    /\ request = NoRequest
    /\ parsed' = parse_syntax(input)
    /\ request' = parse_request(parse_syntax(input))
    /\ UNCHANGED <<service, src, frame, history, input, written, catalog, call, lock>>

Serialize ==
    /\ request.tag = "Ok"
    /\ written = NotWritten
    /\ written' = serialize(request.req)
    /\ UNCHANGED <<service, src, frame, history, input, parsed, request, catalog, call, lock>>

NextRoundTrip ==
    \/ \E line \in CanonicalLines \cup OtherLines : Compose(line)
    \/ ParseRequest
    \/ Serialize

SpecRoundTrip == Init /\ [][NextRoundTrip]_vars

\* Request::from_str step by step: a line is handed to it, the loop runs one
\* iteration at a time, and when the loop is left the command is matched.
RequestLines ==
    {join_with(<<cmd>> \o middle \o trailing, Space) :
        cmd \in {W_NICK, W_USER, W_QUIT, <<110, 105, 99, 107>>},
        middle \in {[i \in 1..n |-> <<97>>] : n \in 0..MaxParams},
        trailing \in {<<>>, <<<<Colon>>>>, <<<<Colon, 97>>>>}}

RequestCall(s) ==
    /\ call = NoCall
    /\ call' = Called(s)
    /\ UNCHANGED <<service, src, frame, history, input, parsed, serial, catalog, lock>>

LoopIteration ==
    /\ call.pc = "loop"
    /\ call.remainder # <<>>
    /\ call' = loop_iteration(call)
    /\ UNCHANGED <<service, src, frame, history, input, parsed, serial, catalog, lock>>

RequestMatch ==
    /\ call.pc = "match" \/ (call.pc = "loop" /\ call.remainder = <<>>)
    /\ call' = [call EXCEPT !.pc = "done", !.result = request_match(call.command, call.params)]
    /\ UNCHANGED <<service, src, frame, history, input, parsed, serial, catalog, lock>>

NextRequest ==
    \/ \E s \in RequestLines : RequestCall(s)
    \/ LoopIteration
    \/ RequestMatch

\* The call runs on for as long as it can take a step.
SpecRequest ==
    Init /\ [][NextRequest]_vars /\ WF_vars(LoopIteration) /\ WF_vars(RequestMatch)

\* The command-level parsers on their own: one token, a reply name in some
\* letter case, a numeric code or another word, is handed to each of them.
ReplyTokens ==
    {Token(r.name, c) : r \in Reply, c \in Casings}
    \cup {Token(ToString(r.code), "upper") : r \in Reply}
    \cup {Token(ResponseArms[i][1], "upper") : i \in DOMAIN ResponseArms}
    \cup {Token(w, c) : w \in {"QUIT", "NICK", "FOO", "999"}, c \in Casings}

Resolve(s) ==
    /\ token = NoToken
    /\ token' = s
    /\ resolved' = [reply |-> Reply_from_str(s),
                    response |-> Response_from_str(s),
                    command |-> Command_from_str(s)]
    /\ UNCHANGED <<service, src, frame, history, input, parsed, serial, call, lock>>

NextCatalog == \E s \in ReplyTokens : Resolve(s)

SpecCatalog == Init /\ [][NextCatalog]_vars

\* ------------------------------------------------------------------ claims

Client(c) == conn_type[c].tag = "Client"
Registering(c) == conn_type[c].tag = "Registering"
Nick(c) == Unwrap(conn_type[c].nickname)
HasTriple(c) ==
    IsSome(conn_type[c].nickname) /\ IsSome(conn_type[c].username)
        /\ IsSome(conn_type[c].realname)

\* The commands among the first k lines of c's log.
LogCmds(c, k) == {log[c][i].req.cmd : i \in 1..k}

\* The nicknames c's log supplies.
LogNicks(c) == {log[c][i].req.nickname : i \in {j \in DOMAIN log[c] : log[c][j].req.cmd = "NICK"}}

\* The nickname in force at line k of c's log: that of the latest NICK.
NickAt(c, k) ==
    LET js == {j \in 1..k : log[c][j].req.cmd = "NICK"}
    IN  log[c][CHOOSE j \in js : \A x \in js : x <= j].req.nickname

RECURSIVE Concat(_)
Concat(ss) == IF ss = <<>> THEN <<>> ELSE ss[1] \o Concat(Tail(ss))

\* Every reply c has been sent, in order.
AllReplies(c) == Concat([i \in DOMAIN log[c] |-> log[c][i].reply])

\* c has sent exactly one NICK n and one USER, in either order, and nothing else.
Registered2(c, n) ==
    /\ Len(log[c]) = 2
    /\ LogCmds(c, 2) = {"NICK", "USER"}
    /\ LogNicks(c) = {n}

\* C1: in every reachable state the registry holds one User per nickname, filed
\* under its own nickname and belonging to the one connection that is Client
\* with it, and no two live connections are Client with the same nickname.
C1_OneUserPerNickname ==
    /\ \A n \in DOMAIN server.users : server.users[n].ident.nick = n
    /\ \A c \in connections :
         Client(c) => /\ Nick(c) \in DOMAIN server.users
                      /\ server.users[Nick(c)].tx = c
                      /\ server.users[Nick(c)].ident = identifier(c)
    /\ \A c1, c2 \in connections :
         c1 # c2 /\ Client(c1) /\ Client(c2) => Nick(c1) # Nick(c2)

\* C1, its case: a connection is Client with a nickname that another live
\* connection has asked for with a complete registration record.
C1_Witness ==
    \E c1, c2 \in connections :
        /\ c1 # c2 /\ Client(c1) /\ Registering(c2) /\ HasTriple(c2)
        /\ Nick(c2) = Nick(c1)

\* C2: when two connections have each sent NICK n and USER, in any order and
\* any interleaving, and nobody else asked for n, exactly one of them is Client
\* and the other is Registering, having been sent ERR_NICKNAMEINUSE and nothing else.
C2_OneWinner ==
    \A c1, c2 \in Conns : \A n \in Nicks :
        (/\ c1 # c2
         /\ Registered2(c1, n) /\ Registered2(c2, n)
         /\ \A c3 \in Conns \ {c1, c2} : n \notin LogNicks(c3))
        => \E w \in {c1, c2} : \E l \in {c1, c2} \ {w} :
             /\ Client(w) /\ Nick(w) = n
             /\ Registering(l)
             /\ AllReplies(l) = error_resp("ERR_NICKNAMEINUSE", <<n>>)

\* C2, its case: two connections have both completed NICK n and USER.
C2_Witness ==
    \E c1, c2 \in Conns : \E n \in Nicks :
        c1 # c2 /\ Registered2(c1, n) /\ Registered2(c2, n)

\* C3: every connection that has sent NICK n and USER, with n asked for by no
\* other connection, is Client and owns the registry's entry for n; when all
\* connections did so the registry holds exactly their nicknames.
C3_DistinctAllSucceed ==
    LET done == {c \in Conns : \E n \in Nicks :
                     Registered2(c, n) /\ \A d \in Conns \ {c} : n \notin LogNicks(d)}
    IN  /\ \A c \in done :
              /\ Client(c)
              /\ Nick(c) \in LogNicks(c)
              /\ Nick(c) \in DOMAIN server.users
              /\ server.users[Nick(c)] = [ident |-> identifier(c), tx |-> c]
        /\ done = Conns =>
              /\ DOMAIN server.users = {Nick(c) : c \in Conns}
              /\ Cardinality(DOMAIN server.users) = NumConns

\* C3, its case: all connections have registered, each with a nickname of its own.
C3_Witness ==
    /\ \A c \in Conns : \E n \in Nicks : Registered2(c, n)
    /\ \A c, d \in Conns : c # d => LogNicks(c) # LogNicks(d)

\* C4: a line whose add_user call succeeded returned exactly RPL_WELCOME,
\* RPL_YOURHOST, RPL_CREATED, RPL_MYINFO in this order, for the nickname in
\* force, and the connection is Client with that nickname.
C4_WelcomeBurst ==
    \A c \in Conns : \A i \in DOMAIN log[c] :
        log[c][i].add_user = "ok" =>
            /\ log[c][i].req.cmd \in {"NICK", "USER"}
            /\ Len(log[c][i].reply) = 4
            /\ [k \in 1..4 |-> log[c][i].reply[k].command]
                   = <<"RPL_WELCOME", "RPL_YOURHOST", "RPL_CREATED", "RPL_MYINFO">>
            /\ log[c][i].reply = WelcomeBurst(NickAt(c, i))
            /\ Client(c) /\ Nick(c) = NickAt(c, i)

\* C4, its case: one connection registered with USER last, another with NICK last.
C4_Witness ==
    \E c1, c2 \in Conns :
        /\ Len(log[c1]) >= 2 /\ Len(log[c2]) >= 2
        /\ log[c1][2].req.cmd = "USER" /\ log[c1][2].add_user = "ok"
        /\ log[c2][2].req.cmd = "NICK" /\ log[c2][2].add_user = "ok"

\* C5: a connection is Client if and only if one of its lines made an add_user
\* call that succeeded, and then all three fields are present and the registry
\* files its nickname under it; a line that leaves one of nickname, username,
\* realname unsupplied makes no add_user call and returns nothing, and a line
\* that completes the three on a Registering connection makes the call.
C5_ClientIffAccepted ==
    \A c \in Conns :
        /\ Client(c) <=> \E i \in DOMAIN log[c] : log[c][i].add_user = "ok"
        /\ Client(c) => /\ HasTriple(c)
                        /\ Nick(c) \in DOMAIN server.users
                        /\ server.users[Nick(c)].tx = c
        /\ \A i \in DOMAIN log[c] :
             IF {"NICK", "USER"} \subseteq LogCmds(c, i)
             THEN \/ \E j \in 1..(i - 1) : log[c][j].add_user = "ok"
                  \/ log[c][i].add_user # "none"
             ELSE /\ log[c][i].add_user = "none"
                  /\ log[c][i].reply = <<>>
        /\ ~(\E i \in DOMAIN log[c] : {"NICK", "USER"} \subseteq LogCmds(c, i)) =>
             (c \in connections => Registering(c))

\* C5, its case: one connection is Client and another has sent two lines that
\* leave the three fields incomplete.
C5_Witness ==
    \E c1, c2 \in Conns :
        /\ Client(c1)
        /\ Len(log[c2]) = 2 /\ Registering(c2) /\ ~HasTriple(c2)

\* The line a step appends to c's log.
Appended(c) == log'[c][Len(log'[c])]

\* C6: a line whose add_user call fails leaves the connection Registering,
\* returns exactly one ERR_NICKNAMEINUSE, leaves the registry as it was and keeps
\* the stored username and realname; and a NICK with a free nickname on a
\* connection that was refused before, with no new USER, registers it with the
\* username and realname it had stored.
C6_Refused ==
    \A c \in Conns :
        Len(log'[c]) = Len(log[c]) + 1 =>
            /\ Appended(c).add_user = "err" =>
                 /\ conn_type'[c].tag = "Registering"
                 /\ Len(Appended(c).reply) = 1
                 /\ Appended(c).reply[1].command = "ERR_NICKNAMEINUSE"
                 /\ server' = server
                 /\ IsSome(conn_type'[c].username) /\ IsSome(conn_type'[c].realname)
                 /\ Appended(c).req.cmd = "NICK" =>
                      /\ conn_type'[c].username = conn_type[c].username
                      /\ conn_type'[c].realname = conn_type[c].realname
            /\ (/\ Registering(c)
                /\ \E i \in DOMAIN log[c] : log[c][i].add_user = "err"
                /\ Appended(c).req.cmd = "NICK"
                /\ Appended(c).req.nickname \notin DOMAIN server.users) =>
                 /\ Appended(c).add_user = "ok"
                 /\ conn_type'[c].tag = "Client"
                 /\ conn_type'[c].nickname = Some(Appended(c).req.nickname)
                 /\ conn_type'[c].username = conn_type[c].username
                 /\ conn_type'[c].realname = conn_type[c].realname

C6_NickInUseKeepsRecord == [][C6_Refused]_vars

\* C6, its case: a connection was refused and its very next line, a NICK, registered it.
C6_Witness ==
    \E c \in Conns : \E i \in DOMAIN log[c] :
        /\ i + 1 \in DOMAIN log[c]
        /\ log[c][i].add_user = "err"
        /\ log[c][i + 1].req.cmd = "NICK"
        /\ log[c][i + 1].add_user = "ok"
        /\ Client(c)

\* C7: once Client a connection stays Client with the same User: no step takes
\* it back to Registering, and a NICK or USER it receives makes no add_user call.
C7_ClientStays ==
    \A c \in Conns :
        Client(c) =>
            /\ conn_type'[c] = conn_type[c]
            /\ Len(log'[c]) = Len(log[c]) + 1 =>
                 /\ Appended(c).add_user = "none"
                 /\ server'.users = server.users

C7_RegistersOnce == [][C7_ClientStays]_vars

\* C7, its case: a Client has received a NICK and another Client a USER.
C7_Witness ==
    \E c1, c2 \in Conns : \E i \in DOMAIN log[c1] : \E j \in DOMAIN log[c2] :
        /\ i > 1 /\ log[c1][i - 1].add_user = "ok" /\ log[c1][i].req.cmd = "NICK"
        /\ j > 1 /\ log[c2][j - 1].add_user = "ok" /\ log[c2][j].req.cmd = "USER"

\* C8: every JOIN, PART, MODE or PRIVMSG handled on a Registering connection
\* returns exactly one ERR_NOTREGISTERED and changes nothing: the connection,
\* the registry and the mailboxes are as before and the task goes on.
C8_NotRegistered ==
    \A c \in Conns : \A req \in Requests :
        (Registering(c) /\ task[c].pc = "idle"
            /\ req.cmd \in {"JOIN", "PART", "MODE", "PRIVMSG"}) =>
        \A order \in Orders(c, req) :
            LET out == process_irc_message(c, req, order) IN
                /\ out.reply = error_resp("ERR_NOTREGISTERED", <<>>)
                /\ out.conn = conn_type[c]
                /\ out.server = server
                /\ out.mailbox = mailbox
                /\ out.task = Idle

\* C9: whenever a connection's task is between handlers, a channel name is in
\* its User's membership set if and only if its identifier is a member of that
\* channel in the registry.
C9_MembershipConsistent ==
    \A c \in connections :
        Client(c) /\ task[c].pc \in {"idle", "panicked"} =>
            \A ch \in Channels :
                ch \in conn_type[c].channels <=>
                    /\ ch \in DOMAIN server.channels
                    /\ identifier(c) \in Range(server.channels[ch].members)

\* C9, its case: one Client has joined and then left a channel that another
\* Client, between handlers, is still a member of.
C9_Witness ==
    \E c1, c2 \in connections : \E ch \in Channels :
        /\ c1 # c2 /\ Client(c1) /\ Client(c2)
        /\ task[c1].pc = "part" /\ \E i \in DOMAIN task[c1].results : task[c1].results[i].ok
        /\ task[c2].pc = "idle" /\ ch \in conn_type[c2].channels

\* C10: every channel the registry holds has at least one member.
C10_NoEmptyChannel ==
    \A ch \in DOMAIN server.channels : server.channels[ch].members # <<>>

\* C10, its case: the last member of a channel has just parted and the channel is gone.
C10_Witness ==
    \E c \in connections : \E i \in DOMAIN task[c].results :
        /\ task[c].pc = "part"
        /\ task[c].results[i].ok
        /\ task[c].channels[i] \notin DOMAIN server.channels

\* The task of c has ended: its future completed or unwound.
Terminated(c) == task[c].pc \in {"closed", "panicked"}

\* C11: whenever the task of a connection has terminated, for whatever reason,
\* the cleanup has run: the socket is no longer in the live-connections map and
\* the registry holds no User whose mailbox is that connection's.
C11_CleanupAlwaysRuns ==
    \A c \in Conns :
        Terminated(c) =>
            /\ c \notin connections
            /\ \A n \in DOMAIN server.users : server.users[n].tx # c

\* C12: the cleanup of a Client leaves its nickname out of the registry's
\* nickname map and its identifier out of every channel's member set, so that
\* add_user with that nickname succeeds for any connection; and at all times
\* every registry entry and every channel member belongs to a live Client.
C12_Disconnected ==
    /\ \A n \in DOMAIN server.users :
          LET c == server.users[n].tx
          IN  c \in connections /\ Client(c) /\ identifier(c) = server.users[n].ident
    /\ \A ch \in DOMAIN server.channels : \A m \in Range(server.channels[ch].members) :
          m.nick \in DOMAIN server.users /\ server.users[m.nick].ident = m
    /\ \A c \in Conns :
          (Client(c) /\ c \in connections /\ c \notin connections') =>
              /\ Nick(c) \notin DOMAIN server'.users
              /\ \A ch \in DOMAIN server'.channels :
                     identifier(c) \notin Range(server'.channels[ch].members)
              /\ \A d \in Conns : \A u \in UserNames : \A r \in RealNames :
                     Server_add_user(server', UserIdentifier(Nick(c), u, r, HostOf(d)), d).ok

C12_DisconnectFreesNickname == [][C12_Disconnected]_vars

\* C12, its case: a Client that was a member of a channel has disconnected and
\* another connection is now Client with the nickname it had.
C12_Witness ==
    \E c1, c2 \in Conns : \E i \in DOMAIN log[c1] :
        /\ c1 # c2
        /\ log[c1][i].conn.tag = "Client"
        /\ log[c1][i].conn.channels # {}
        /\ c2 \in connections /\ Client(c2)
        /\ conn_type[c2].nickname = log[c1][i].conn.nickname

\* The JOIN requests that name channels without keys.
JoinsNoKey == {req \in Requests : req.cmd = "JOIN" /\ req.join = "Channels"}

\* What Connection::join returns for a JOIN handled in the current state:
\* the registry call and then the zip over its results.
JoinOutcome(c, req) ==
    LET first == process_irc_message(c, req, <<>>)
        fin == join_finish(identifier(c), first.task.results, first.task.channels,
                           first.conn.channels, <<>>)
    IN  [server |-> first.server, results |-> first.task.results,
         channels |-> fin.channels, reply |-> fin.reply]

\* The replies of one command about one channel, in order.
RepliesAbout(reply, command, name) ==
    SelectSeq(reply, LAMBDA m : m.command = command /\ m.params[2] = name)

\* The JOIN echoes for one channel.
JoinEchoes(reply, name) ==
    SelectSeq(reply, LAMBDA m : m.command = "JOIN" /\ m.params[1] = name)

\* The i-th channel of a JOIN is not named earlier in the same JOIN.
FirstNamed(req, i) == \A j \in 1..(i - 1) : req.keyed[j][1] # req.keyed[i][1]

\* C13: a JOIN without key by a Client, for a channel the registry does not
\* hold, creates the channel with the joiner as its only member, no key and no
\* topic; the joiner's membership set gains the channel and the one RPL_NAMREPLY
\* returned for it lists exactly the joiner.
C13_JoinCreates ==
    \A c \in connections :
        Client(c) /\ task[c].pc = "idle" =>
            \A req \in JoinsNoKey : \A i \in DOMAIN req.keyed :
                LET name == req.keyed[i][1]
                    out == JoinOutcome(c, req)
                IN  (name \notin DOMAIN server.channels /\ FirstNamed(req, i)) =>
                        /\ name \in DOMAIN out.server.channels
                        /\ out.server.channels[name].members = <<identifier(c)>>
                        /\ out.server.channels[name].key = None
                        /\ out.server.channels[name].topic = None
                        /\ name \in out.channels
                        /\ RepliesAbout(out.reply, "RPL_NAMREPLY", name)
                             = <<IRCMessage(None, "RPL_NAMREPLY", <<Nick(c), name, <<Nick(c)>>>>)>>

\* C13, its case: the registry has just created a channel for a JOIN without
\* key and the joiner is its only member.
C13_Witness ==
    \E c \in connections : \E i \in DOMAIN task[c].results :
        /\ task[c].pc = "join"
        /\ task[c].channels[i][2] = None
        /\ task[c].results[i].ok
        /\ task[c].results[i].users = <<identifier(c)>>
        /\ server.channels[task[c].channels[i][1]].members = <<identifier(c)>>

\* The JOIN requests that name channels, with or without keys.
JoinsNamed == {req \in Requests : req.cmd = "JOIN" /\ req.join # "PartAll"}

\* The replies a rejection of the given kind is answered with.
RejectionReply(err) ==
    IF err = "BadKey" THEN "ERR_BADCHANNELKEY" ELSE "ERR_BANNEDFROMCHAN"

\* C14: when the registry rejects an entry of a Client's JOIN with BadKey or
\* Banned, the reply holds exactly one ERR_BADCHANNELKEY, respectively
\* ERR_BANNEDFROMCHAN, per rejected entry and nothing else about that channel;
\* the channel's member list, key and ban list and the caller's membership set
\* are as before.
C14_JoinRejected ==
    \A c \in connections :
        Client(c) /\ task[c].pc = "idle" =>
            \A req \in JoinsNamed : \A i \in DOMAIN req.keyed :
                LET name == req.keyed[i][1]
                    out == JoinOutcome(c, req)
                    err == out.results[i].err
                    same == {j \in DOMAIN req.keyed :
                                req.keyed[j][1] = name /\ out.results[j].err = err}
                IN  (~out.results[i].ok /\ err \in {"BadKey", "Banned"}) =>
                        /\ RepliesAbout(out.reply, RejectionReply(err), name)
                             = [k \in 1..Cardinality(same) |->
                                   IRCMessage(None, RejectionReply(err), <<Nick(c), name>>)]
                        /\ JoinEchoes(out.reply, name) = <<>>
                        /\ RepliesAbout(out.reply, "RPL_NAMREPLY", name) = <<>>
                        /\ RepliesAbout(out.reply, "RPL_ENDOFNAMES", name) = <<>>
                        /\ out.server.channels[name] = server.channels[name]
                        /\ (name \in out.channels) = (name \in conn_type[c].channels)

\* C14, its case: the registry has just rejected the JOIN of one Client with
\* BadKey and that of another Client with Banned.
C14_Witness ==
    \E c1, c2 \in connections :
        /\ task[c1].pc = "join" /\ task[c2].pc = "join"
        /\ \E i \in DOMAIN task[c1].results : task[c1].results[i].err = "BadKey"
        /\ \E i \in DOMAIN task[c2].results : task[c2].results[i].err = "Banned"

\* The replies that name the channel, whatever their command.
About(reply, name) ==
    SelectSeq(reply, LAMBDA m : \E k \in DOMAIN m.params \cap {1, 2} : m.params[k] = name)

\* How often x occurs in the sequence s.
Occurrences(s, x) == Cardinality({k \in DOMAIN s : s[k] = x})

\* C15: a Client's JOIN naming a channel it already belongs to returns nothing
\* about that channel and leaves the channel's member list and the caller's
\* membership of it as they were; a JOIN naming a channel it does not belong to,
\* once or twice, returns the replies of one join and makes it a member once;
\* in no case does a member list hold the caller twice.
C15_JoinIdempotent ==
    \A c \in connections :
        Client(c) /\ task[c].pc = "idle" =>
            \A req \in JoinsNamed : \A i \in DOMAIN req.keyed :
                LET name == req.keyed[i][1]
                    out == JoinOutcome(c, req)
                IN  /\ Occurrences(out.server.channels[name].members, identifier(c)) = 1
                    /\ name \in out.channels
                    /\ IF name \in conn_type[c].channels
                       THEN /\ About(out.reply, name) = <<>>
                            /\ out.server.channels[name] = server.channels[name]
                            /\ out.results[i].err = "AlreadyMember"
                       ELSE /\ Len(JoinEchoes(out.reply, name)) = 1
                            /\ Len(RepliesAbout(out.reply, "RPL_NAMREPLY", name)) = 1
                            /\ Len(About(out.reply, name)) = 3
                            /\ ~FirstNamed(req, i) => out.results[i].err = "AlreadyMember"

\* C15, its case: the registry has just answered AlreadyMember to a Client that
\* was a member before its JOIN and to another whose JOIN names a channel twice.
C15_Witness ==
    \E c1, c2 \in connections :
        /\ c1 # c2 /\ task[c1].pc = "join" /\ task[c2].pc = "join"
        /\ task[c1].channels[1][1] \in conn_type[c1].channels
        /\ task[c1].results[1].err = "AlreadyMember"
        /\ Len(task[c2].results) = 2
        /\ task[c2].channels[1][1] = task[c2].channels[2][1]
        /\ task[c2].results[1].ok
        /\ task[c2].results[2].err = "AlreadyMember"

\* The PART requests.
Parts == {req \in Requests : req.cmd = "PART"}

\* What Connection::part returns for a PART handled in the current state:
\* the registry call and then the zip over its results.
PartOutcome(c, req) ==
    LET first == process_irc_message(c, req, <<>>)
        fin == part_finish(identifier(c), first.task.results, first.task.channels,
                           first.task.message, first.conn.channels, <<>>)
    IN  [server |-> first.server, results |-> first.task.results,
         channels |-> fin.channels, reply |-> fin.reply]

\* The channel's entry in a channel map, None when the map has none.
ChannelIn(chans, name) == IF name \in DOMAIN chans THEN Some(chans[name]) ELSE None

\* C16: a Client's PART returns one reply per channel named, in order; for a
\* channel the registry holds but the caller is not a member of, the reply is
\* ERR_NOTONCHANNEL, for a channel the registry does not hold it is
\* ERR_NOSUCHCHANNEL, and in both cases the channel, the caller's membership
\* set and the registry's users are as before.
C16_PartRefused ==
    \A c \in connections :
        Client(c) /\ task[c].pc = "idle" =>
            \A req \in Parts :
                LET out == PartOutcome(c, req) IN
                /\ Len(out.reply) = Len(req.channels)
                /\ out.server.users = server.users
                /\ \A i \in DOMAIN req.channels :
                     LET name == req.channels[i]
                         first == \A j \in 1..(i - 1) : req.channels[j] # name
                     IN  /\ (first /\ name \notin DOMAIN server.channels) =>
                              /\ out.reply[i]
                                   = IRCMessage(None, "ERR_NOSUCHCHANNEL", <<Nick(c), name>>)
                              /\ name \notin DOMAIN out.server.channels
                              /\ name \notin out.channels
                         /\ (/\ first /\ name \in DOMAIN server.channels
                             /\ identifier(c) \notin Range(server.channels[name].members)) =>
                              /\ out.reply[i]
                                   = IRCMessage(None, "ERR_NOTONCHANNEL", <<Nick(c), name>>)
                              /\ ChannelIn(out.server.channels, name)
                                   = ChannelIn(server.channels, name)
                              /\ name \notin out.channels
                         /\ (\A k \in DOMAIN req.channels : ~out.results[k].ok) =>
                              /\ out.server = server
                              /\ out.channels = conn_type[c].channels

\* C16, its case: the registry has just answered NotOnChannel to the PART of one
\* Client and NoSuchChannel to the PART of another.
C16_Witness ==
    \E c1, c2 \in connections :
        /\ task[c1].pc = "part" /\ task[c2].pc = "part"
        /\ task[c1].results # <<>> /\ task[c2].results # <<>>
        /\ task[c1].results[1].err = "NotOnChannel"
        /\ task[c2].results[1].err = "NoSuchChannel"

\* The step is c's handler making the registry call of the given kind.
Calls(c, kind) == task[c].pc = "idle" /\ task'[c].pc = kind

\* C17: a PART the registry accepts from the only member of a channel deletes
\* the channel, and from one member among several removes just that member; and
\* a channel the registry did not hold appears only by a JOIN, with no key, no
\* topic, no bans and the joiner as its only member, whatever the channel of
\* that name held before.
C17_LastPart ==
    /\ \A c \in Conns :
          Calls(c, "part") =>
              \A i \in DOMAIN task'[c].results :
                  LET name == task'[c].channels[i] IN
                  task'[c].results[i].ok =>
                      IF server.channels[name].members = <<identifier(c)>>
                      THEN name \notin DOMAIN server'.channels
                      ELSE /\ name \in DOMAIN server'.channels
                           /\ server'.channels[name].members
                                = Without(server.channels[name].members, identifier(c))
    /\ \A name \in DOMAIN server'.channels \ DOMAIN server.channels :
          \E c \in Conns :
              /\ Calls(c, "join")
              /\ server'.channels[name]
                   = [key |-> None, topic |-> None, bans |-> {}, members |-> <<identifier(c)>>]

C17_LastPartDeletes == [][C17_LastPart]_vars

\* C17, its case: the last member of a channel that had a key has parted it,
\* and a JOIN has just created the channel of that name again.
C17_Witness ==
    \E c1, c2 \in Conns : \E i \in DOMAIN log[c1] : \E d \in log[c1][i].deleted :
        /\ IsSome(d.channel.key)
        /\ c2 \in connections /\ task[c2].pc = "join"
        /\ task[c2].channels[1][1] = d.name
        /\ task[c2].results[1].ok
        /\ task[c2].results[1].users = <<identifier(c2)>>
        /\ d.name \in DOMAIN server.channels
        /\ server.channels[d.name].key = None

\* The PRIVMSG requests with one target.
SingleTargetPrivmsgs ==
    {req \in Requests : req.cmd = "PRIVMSG" /\ Len(req.targets) = 1}

\* The connections a message from c to target is for: the Client with that
\* nickname, or the Clients whose identifiers are members of that channel,
\* the sender left out.
Addressees(c, target) ==
    IF \E d \in connections : Client(d) /\ Nick(d) = target
    THEN {d \in connections : Client(d) /\ Nick(d) = target}
    ELSE IF target \in DOMAIN server.channels
    THEN {d \in connections \ {c} :
             Client(d) /\ identifier(d) \in Range(server.channels[target].members)}
    ELSE {}

\* The mailbox of d can take an event: its receiver lives and it is not full.
Receiving(d) == task[d].pc # "panicked" /\ Len(mailbox[d]) < MaxMailbox

\* C18: a PRIVMSG with one target from a Client appends the message, with the
\* sender's identifier as prefix, to the mailbox of every addressee that can
\* take it (the Client of that nickname, or every member of that channel but
\* the sender) and to no other mailbox; the handler returns no reply and
\* changes neither the registry nor the connection.
C18_PrivmsgRouted ==
    \A c \in connections :
        Client(c) /\ task[c].pc = "idle" =>
            \A req \in SingleTargetPrivmsgs :
                LET out == process_irc_message(c, req, <<>>)
                    event == <<IRCMessage(Some(identifier(c)), "PRIVMSG",
                                          <<req.targets, req.message>>)>>
                IN  /\ out.reply = <<>>
                    /\ out.server = server
                    /\ out.conn = conn_type[c]
                    /\ out.task = Idle
                    /\ \A d \in Conns :
                         out.mailbox[d] =
                             IF d \in Addressees(c, req.targets[1]) /\ Receiving(d)
                             THEN Append(mailbox[d], event)
                             ELSE mailbox[d]

\* C18, its case: one Client holds a message another sent to its nickname, and
\* that other holds a message the first sent to a channel both are members of.
C18_Witness ==
    \E c1, c2 \in connections : \E ch \in Channels :
        /\ c1 # c2 /\ Client(c1) /\ Client(c2)
        /\ ch \in conn_type[c1].channels /\ ch \in conn_type[c2].channels
        /\ mailbox[c1] # <<>> /\ mailbox[c2] # <<>>
        /\ mailbox[c1][1][1].prefix = Some(identifier(c2))
        /\ mailbox[c1][1][1].params[1] = <<Nick(c1)>>
        /\ mailbox[c2][1][1].prefix = Some(identifier(c1))
        /\ mailbox[c2][1][1].params[1] = <<ch>>

\* The buffer holds a CR immediately followed by an LF.
ContainsCrlf(s) == \E i \in 1..(Len(s) - 1) : s[i] = CR /\ s[i + 1] = LF

\* The index of the CR of the first CRLF in the buffer.
FirstCrlf(s) ==
    CHOOSE i \in 1..(Len(s) - 1) :
        /\ s[i] = CR /\ s[i + 1] = LF
        /\ \A j \in 1..(i - 1) : ~(s[j] = CR /\ s[j + 1] = LF)

\* C19: decode on a buffer that holds no CRLF returns Ok(None) and leaves the
\* buffer as it was, byte for byte.
C19_NeedMoreData ==
    ~ContainsCrlf(src) =>
        /\ decode(src).frame = DecodeOk(None)
        /\ decode(src).src = src

\* C19, its case: decode has just answered Ok(None) on a buffer that holds
\* bytes, a lone CR and a lone LF among them, but no CRLF.
C19_Witness ==
    /\ frame = DecodeOk(None)
    /\ ~ContainsCrlf(src)
    /\ \E i, j \in DOMAIN src : src[i] = CR /\ src[j] = LF

\* C20: decode on a buffer that holds a CRLF returns the bytes before the first
\* CRLF, the empty line included, and leaves in the buffer exactly the bytes
\* after that CRLF (stated for lines that are valid UTF-8).
C20_FirstLine ==
    ContainsCrlf(src) =>
        LET i == FirstCrlf(src)
            line == SubSeq(src, 1, i - 1)
        IN  from_utf8(line) =>
                /\ decode(src).frame = DecodeOk(Some(line))
                /\ decode(src).src = SubSeq(src, i + 2, Len(src))

\* The lines among the results of a sequence of decode calls.
RECURSIVE Lines(_)
Lines(results) ==
    IF results = <<>> THEN <<>>
    ELSE (IF results[1].item # None THEN <<Unwrap(results[1].item)>> ELSE <<>>)
         \o Lines(Tail(results))

\* decode called on a buffer that holds the whole of s until it returns no
\* line: the lines returned, whether the last call failed, what is left.
RECURSIVE DecodeWhole(_, _)
DecodeWhole(s, lines) ==
    LET decoded == decode(s) IN
    IF decoded.frame.tag = "Err" THEN [lines |-> lines, err |-> TRUE, rest |-> decoded.src]
    ELSE IF decoded.frame.item = None THEN [lines |-> lines, err |-> FALSE, rest |-> s]
    ELSE DecodeWhole(decoded.src, Append(lines, Unwrap(decoded.frame.item)))

\* The bytes of the lines, each with its terminator.
RECURSIVE Framed(_)
Framed(lines) ==
    IF lines = <<>> THEN <<>> ELSE lines[1] \o <<CR, LF>> \o Framed(Tail(lines))

\* C21: until the socket ends, however the bytes received were spread over
\* reads and decode calls, the lines returned so far followed by the lines
\* decode would still return from the buffer are the lines decode returns from
\* the whole of the bytes at once, failing where that fails and leaving what
\* that leaves; and while no call has failed the bytes received are exactly
\* the lines returned, each with its CRLF, followed by the buffer.
C21_Restartable ==
    ~eof =>
        LET whole == DecodeWhole(received, <<>>)
            ahead == DecodeWhole(src, <<>>)
        IN  IF frame.tag = "Err"
            THEN whole.err /\ whole.lines = Lines(yielded) /\ whole.rest = src
            ELSE /\ whole.lines = Lines(yielded) \o ahead.lines
                 /\ whole.err = ahead.err
                 /\ whole.rest = ahead.rest
                 /\ received = Framed(Lines(yielded)) \o src

\* C21, its case: decode was called twice on the unfinished first line, a
\* further read completed it, and the call after that returned the line.
C21_Witness ==
    /\ ~eof
    /\ Len(yielded) >= 3
    /\ yielded[1] = DecodeOk(None)
    /\ yielded[2] = DecodeOk(None)
    /\ yielded[3].tag = "Ok" /\ yielded[3].item # None
    /\ src # <<>>

\* C22: at end of stream decode_eof fails on a buffer that holds bytes but no
\* CRLF, returning no frame and taking nothing from the buffer, and on a
\* buffer that holds a CRLF it returns the line before the first CRLF (stated
\* for lines that are valid UTF-8).
C22_EofPartialLine ==
    /\ (src # <<>> /\ ~ContainsCrlf(src)) =>
          /\ decode_eof(src).frame = DecodeErr
          /\ decode_eof(src).src = src
    /\ ContainsCrlf(src) =>
          LET line == SubSeq(src, 1, FirstCrlf(src) - 1)
          IN  from_utf8(line) => decode_eof(src).frame = DecodeOk(Some(line))

\* C23: parse_syntax fails for the empty input, for every input of fewer than
\* 2 or more than 512 bytes, terminator included, and for every input that
\* does not end with CRLF; a line of exactly 512 bytes that ends with CRLF is
\* not refused for its length.
C23_BadLength ==
    /\ parse_syntax(<<>>).tag = "Err"
    /\ (Len(input) < 2 \/ Len(input) > 512) => parse_syntax(input).tag = "Err"
    /\ (Len(input) < 2 \/ SubSeq(input, Len(input) - 1, Len(input)) # <<CR, LF>>)
          => parse_syntax(input).tag = "Err"
    /\ input = LongLine(MaxCommandLength - 2) => parse_syntax(input).tag = "Ok"
    /\ parsed # Unparsed => parsed = parse_syntax(input)

\* A line of 513 bytes that ends with CRLF has been parsed and was refused.
C23_Witness ==
    /\ Len(input) = MaxCommandLength + 1
    /\ SubSeq(input, Len(input) - 1, Len(input)) = <<CR, LF>>
    /\ parsed.tag = "Err"

\* What has been parsed is what parse_syntax returns for the line.
ParsedLine == parsed # Unparsed /\ parsed = parse_syntax(input)

\* C24: for every line that starts with ':' and parses successfully the
\* stored prefix is the token between the leading colon and the first space,
\* without the colon; a line that does not start with ':' has no prefix.
C24_PrefixWithoutColon ==
    (ParsedLine /\ parsed.tag = "Ok") =>
        IF input[1] = Colon
        THEN parsed.prefix = Some(SubSeq(input, 2, find(input, Space)))
        ELSE parsed.prefix = None

\* The line without its terminator, for a line that ends with CRLF and has
\* no other CR or LF in it.
Body(line) == SubSeq(line, 1, Len(line) - 2)
WellTerminated(line) ==
    /\ Len(line) >= 2
    /\ SubSeq(line, Len(line) - 1, Len(line)) = <<CR, LF>>
    /\ \A i \in 1..(Len(line) - 2) : line[i] \notin {CR, LF}

\* The text after the command token of a line body, read off the grammar
\* [":" prefix SP] command {SP param} [SP ":" trailing].
AfterToken(text) == IF find(text, Space) < 0 THEN <<>> ELSE slice_from(text, find(text, Space) + 1)
AfterCommand(body) == AfterToken(IF starts_with(body, Colon) THEN AfterToken(body) ELSE body)

\* The parameters of that text: the tokens between spaces in order, until a
\* token begins with ':', which makes all that follows the colon the last one.
RECURSIVE ParamsOf(_)
ParamsOf(text) ==
    IF text = <<>> THEN <<>>
    ELSE IF text[1] = Colon THEN (IF Len(text) = 1 THEN <<>> ELSE <<Tail(text)>>)
    ELSE IF text[1] = Space THEN ParamsOf(Tail(text))
    ELSE IF find(text, Space) < 0 THEN <<text>>
    ELSE <<slice(text, 0, find(text, Space))>> \o ParamsOf(AfterToken(text))

\* C25: the parameters parse_syntax returns are the space-delimited tokens of
\* the text after the command, in order, and a token that begins with ':'
\* makes everything after its colon up to the CRLF, embedded and trailing
\* spaces included, the final parameter.
C25_ParamsVerbatim ==
    (ParsedLine /\ parsed.tag = "Ok" /\ parsed.command # <<>> /\ WellTerminated(input)) =>
        parsed.params = ParamsOf(AfterCommand(Body(input)))

\* C26: every successful parse yields a non-empty command token.
C26_CommandNonEmpty ==
    (ParsedLine /\ parsed.tag = "Ok") => parsed.command # <<>>

\* C27: for every canonical line the serializer supports (single-channel
\* PART with or without message, PONG, single-target PRIVMSG, MODE,
\* single-channel JOIN), writing the request read from the line gives the
\* line back.
C27_RoundTrip ==
    (input \in CanonicalLines /\ written # NotWritten) => written = Wrote(input)

\* A request the serializer must refuse: a PART of more than one channel, a
\* JOIN of PartAll, of KeyedChannels or of more than one channel.
InvalidShape(req) ==
    \/ req.cmd = "PART" /\ Len(req.channels) > 1
    \/ req.cmd = "JOIN" /\ (req.join.kind \in {"PartAll", "KeyedChannels"} \/ Len(req.join.names) > 1)

\* C28: serializing a request of an invalid shape fails and puts no line on
\* the wire.
C28_InvalidShapeRejected ==
    (request.tag = "Ok" /\ InvalidShape(request.req) /\ written # NotWritten)
        => written = WritePanic

\* The replies a token names: by symbolic name or by three-digit code.
Named(s) == {r \in Reply : s.text = r.name \/ s.text = ToString(r.code)}

\* No pattern of the match stands in two arms with different variants.
Unambiguous(arms) ==
    \A i, j \in DOMAIN arms : arms[i][1] = arms[j][1] => arms[i][2] = arms[j][2]

\* The tables alone: Reply::from_str and Response::from_str resolve the code
\* and the name of every reply, in any letter case, to that reply.
C29_Tables ==
    /\ Unambiguous(ReplyArms) /\ Unambiguous(ResponseArms)
    /\ \A r \in Named(token) :
          /\ resolved.reply = Resolved("Reply", r.name)
          /\ resolved.response = Resolved("Resp", r.name)

\* C29: for every reply of the catalog, parsing its numeric code and parsing
\* its symbolic name, in any letter case, both succeed and give that reply,
\* in Reply::from_str, in Response::from_str and in Command::from_str, and no
\* code or name stands for two replies.
C29_NumericAndName ==
    /\ C29_Tables
    /\ \A r \in Named(token) : resolved.command = Resolved("Resp", r.name)

\* The step is the handling of a line of c that failed to parse.
UnparsedStep(c) ==
    /\ Len(log'[c]) = Len(log[c]) + 1
    /\ log'[c][Len(log'[c])].req = UnparsedLine

\* A line that fails to parse produces no reply and changes neither the
\* connection's state nor the registry nor any mailbox; the connection stays
\* in the live-connections map and its task is ready for the next line.
C30_Dropped ==
    \A c \in Conns :
        UnparsedStep(c) =>
            /\ log'[c][Len(log'[c])].reply = <<>>
            /\ conn_type' = conn_type
            /\ server' = server
            /\ mailbox' = mailbox
            /\ connections' = connections
            /\ c \in connections'
            /\ task'[c].pc = "idle"

\* C30: a socket line that fails to parse is dropped without effect: no
\* reply, connection state and registry unchanged, the connection stays in
\* the live-connections map and goes on to process later lines.
C30_UnparsedDropped == [][C30_Dropped]_vars

\* A connection whose line failed to parse has gone on to register with
\* later lines and got its welcome burst.
C30_Witness ==
    \E c \in connections :
        \E i, j \in DOMAIN log[c] :
            /\ i < j
            /\ log[c][i].req = UnparsedLine
            /\ log[c][j].reply # <<>>
            /\ Client(c)

\* The line, cut at its trailing whitespace, has a command token: it is not
\* empty and, if it starts with a prefix, text follows the prefix's space.
HasCommand(line) ==
    LET t == trim_right(line) IN
    IF starts_with(t, Colon) THEN find(t, Space) >= 0 /\ find(t, Space) + 1 < Len(t)
    ELSE t # <<>>

\* C38: in parse_syntax an empty trailing ':' parameter is dropped and an
\* empty token between consecutive spaces is skipped, and neither is an
\* error: every terminated line of legal length that has a command parses,
\* and no parameter of a parsed line is the empty string.
C38_NoEmptyParam ==
    /\ (ParsedLine /\ parsed.tag = "Ok") =>
            \A i \in DOMAIN parsed.params : parsed.params[i] # <<>>
    /\ (ParsedLine /\ ~bad_length(input) /\ WellTerminated(input) /\ HasCommand(input)) =>
            parsed.tag = "Ok"

\* A line with an empty token between two spaces and an empty trailing ':'
\* has been parsed: it has a command and no parameter.
C38_Witness ==
    /\ ParsedLine /\ parsed.tag = "Ok"
    /\ parsed.command # <<>> /\ parsed.params = <<>>
    /\ \E i \in 2..(Len(input) - 4) :
          /\ input[i] = Space /\ input[i + 1] = Space
          /\ SubSeq(input, Len(input) - 2, Len(input)) = <<Colon, CR, LF>>

\* The parameters of the line of the call, as the grammar has them.
CallParams == ParamsOf(AfterToken(call.s))

\* The line is a NICK with no parameter or a USER with fewer than 4.
TooFewParams ==
    \/ to_uppercase_bytes(next_token(call.s).token) = W_NICK /\ Len(CallParams) < 1
    \/ to_uppercase_bytes(next_token(call.s).token) = W_USER /\ Len(CallParams) < 4

\* C37: parsing a NICK line with fewer than 1 parameter or a USER line with
\* fewer than 4 fails with NeedMoreParams, for every such line, and makes
\* no Request.
C37_NeedMoreParams ==
    /\ [](call.pc = "done" /\ TooFewParams => call.result = "NeedMoreParams")
    /\ (call.pc = "loop" /\ TooFewParams) ~> (call.pc = "done" /\ call.result = "NeedMoreParams")

\* C39: every call of Request::from_str ends: each iteration of its loop
\* shortens the remaining input, and the loop is left for every line.
C39_Terminates ==
    /\ [][call.pc = "loop" /\ call'.pc = "loop" => Len(call'.remainder) < Len(call.remainder)]_vars
    /\ (call.pc = "loop") ~> (call.pc = "done")

\* C35: a MODE change request from a Client whose target is not the caller's
\* nickname is answered with ERR_USERSDONTMATCH alone; one for the caller's own
\* nickname whose mode string does not start with '+' or '-', has no flag
\* character after the sign, or holds an unrecognised flag is answered with
\* ERR_UMODEUNKNOWNFLAG alone; in each of these cases the Connection, its mode
\* set included, and the registry are left as they were.
BadModeString(mode) ==
    \/ Len(mode) < 2
    \/ mode[1] \notin {"+", "-"}
    \/ \E i \in 2..Len(mode) : mode[i] \notin UserModes

ModeError(c, req) ==
    IF req.target # Unwrap(conn_type[c].nickname) THEN "ERR_USERSDONTMATCH"
    ELSE IF BadModeString(Unwrap(req.mode_string)) THEN "ERR_UMODEUNKNOWNFLAG"
    ELSE "none"

C35_ModeErrors ==
    \A c \in Conns : \A req \in ModeRequests :
        (conn_type[c].tag = "Client" /\ task[c].pc = "idle" /\ req.mode_string # None
            /\ ModeError(c, req) # "none") =>
            LET out == process_irc_message(c, req, <<>>) IN
                /\ Len(out.reply) = 1
                /\ out.reply[1].command = ModeError(c, req)
                /\ out.conn = conn_type[c]
                /\ out.server = server

\* A Client was sent back ERR_UMODEUNKNOWNFLAG for a mode string with an
\* unrecognised flag after a recognised one, and its mode set is still empty.
C35_Witness ==
    \E c \in Conns :
        /\ Len(log[c]) = MaxLines
        /\ log[c][MaxLines].req = ModeReq(Unwrap(conn_type[c].nickname), Some(<<"+", "i", "x">>))
        /\ log[c][MaxLines].reply = error_resp("ERR_UMODEUNKNOWNFLAG", <<Unwrap(conn_type[c].nickname)>>)
        /\ conn_type[c].tag = "Client"
        /\ conn_type[c].modes = {}

\* What JOIN 0 returns when handled in the current state, the User's channel
\* set being iterated in the given order.
PartAllOutcome(c, order) ==
    LET first == process_irc_message(c, JoinReq("PartAll", <<>>), order)
        fin == part_finish(identifier(c), first.task.results, first.task.channels,
                           first.task.message, first.conn.channels, <<>>)
    IN  [server |-> first.server, channels |-> fin.channels, reply |-> fin.reply]

\* C36: JOIN 0 by a Client parts it from every channel of its membership set:
\* afterwards the set is empty and no channel of the registry lists the caller,
\* and the replies are one PART echo, prefixed with the caller's identifier,
\* per channel it was in, and nothing else.
C36_PartAll ==
    \A c \in connections :
        Client(c) /\ task[c].pc = "idle" =>
            \A order \in Perms(conn_type[c].channels) :
                LET out == PartAllOutcome(c, order) IN
                /\ out.channels = {}
                /\ \A n \in DOMAIN out.server.channels :
                       identifier(c) \notin Range(out.server.channels[n].members)
                /\ out.server.users = server.users
                /\ Len(out.reply) = Cardinality(conn_type[c].channels)
                /\ \A i \in DOMAIN out.reply :
                       out.reply[i]
                         = IRCMessage(Some(identifier(c)), "PART", <<<<order[i]>>, None>>)

\* A Client that was in two channels, one of them shared with another Client,
\* has sent JOIN 0 and the registry has parted it from both.
C36_Witness ==
    \E c \in connections :
        /\ Client(c)
        /\ task[c].pc = "part"
        /\ Len(task[c].channels) = 2
        /\ Range(task[c].channels) = conn_type[c].channels
        /\ \A i \in DOMAIN task[c].results : task[c].results[i].ok
        /\ DOMAIN server.channels # {}

\* The JOIN requests of the channels with and without a topic.
TopicJoins == {req \in TopicRequests : req.cmd = "JOIN"}

\* The topic the registry holds for a channel, None for a channel it lacks.
TopicOf(name) ==
    IF name \in DOMAIN server.channels THEN server.channels[name].topic ELSE None

\* The number of replies owed for one result of the registry's join.
GroupLen(name, res) ==
    IF res.ok THEN (IF IsSome(TopicOf(name)) THEN 4 ELSE 3)
    ELSE IF res.err = "AlreadyMember" THEN 0 ELSE 1

\* The number of replies owed for the results before the i-th.
RECURSIVE GroupStart(_, _, _)
GroupStart(keyed, results, i) ==
    IF i = 1 THEN 0
    ELSE GroupStart(keyed, results, i - 1) + GroupLen(keyed[i - 1][1], results[i - 1])

\* C34: the replies to a Client's JOIN are the groups of its channels in the
\* order of the request; the group of a channel joined successfully is the JOIN
\* echo prefixed with the joiner's identifier and naming that channel alone,
\* then RPL_TOPIC exactly when the channel has a topic, then RPL_NAMREPLY, then
\* RPL_ENDOFNAMES.
C34_JoinReplyOrder ==
    \A c \in connections :
        Client(c) /\ task[c].pc = "idle" =>
            \A req \in TopicJoins :
                LET out == JoinOutcome(c, req)
                    n == Len(req.keyed)
                IN  /\ Len(out.results) = n
                    /\ Len(out.reply) = GroupStart(req.keyed, out.results, n + 1)
                    /\ \A i \in 1..n :
                         out.results[i].ok =>
                            LET name == req.keyed[i][1]
                                at == GroupStart(req.keyed, out.results, i)
                                names == at + (IF IsSome(TopicOf(name)) THEN 3 ELSE 2)
                            IN  /\ out.reply[at + 1]
                                     = IRCMessage(Some(identifier(c)), "JOIN", <<name>>)
                                /\ IsSome(TopicOf(name)) =>
                                     out.reply[at + 2]
                                       = IRCMessage(None, "RPL_TOPIC",
                                                    <<Nick(c), name, Unwrap(TopicOf(name))>>)
                                /\ out.reply[names].command = "RPL_NAMREPLY"
                                /\ out.reply[names].params[2] = name
                                /\ out.reply[names + 1]
                                     = IRCMessage(None, "RPL_ENDOFNAMES", <<Nick(c), name>>)

\* A Client's JOIN of two channels, the first with a topic and the second
\* without, has been answered Ok twice by the registry.
C34_Witness ==
    \E c \in connections :
        /\ Client(c)
        /\ task[c].pc = "join"
        /\ Len(task[c].results) = 2
        /\ task[c].results[1].ok /\ IsSome(task[c].results[1].topic)
        /\ task[c].results[2].ok /\ task[c].results[2].topic = None

\* The task of the SocketPair is running.
Live(c) == task[c].pc \notin {"closed", "panicked"}

\* handle_new_connection runs for the SocketPair in this step.
Accepted(c) == ~Live(c) /\ task'[c].pc = "idle"

\* The cleanup closure runs for the SocketPair in this step.
CleanedUp(c) == Live(c) /\ task'[c].pc = "closed"

C40_Step ==
    \A c \in Conns :
        /\ Accepted(c) => (c \in connections => task[c].pc = "panicked")
        /\ Accepted(c) => c \in connections'
        /\ CleanedUp(c) => c \in connections /\ c \notin connections'
        /\ (Live(c) /\ Live(c)') => (c \in connections /\ c \in connections')

C33_MailboxOrder ==
    \A c \in connections :
        LET sent == Enqueued(c)
            out == FromMailbox(c)
        IN  /\ Len(out) <= Len(sent)
            /\ \A i \in DOMAIN out : out[i].item = sent[i].item
            /\ mailbox[c] = [i \in 1..(Len(sent) - Len(out)) |-> sent[Len(out) + i].item]

\* Two events were enqueued before the first was written, the second has two
\* messages, a reply to the connection's own line went out between the two,
\* and both have been written.
C33_Witness ==
    \E c \in connections :
        /\ Len(log[c]) = MaxLog
        /\ log[c][1].kind = "enqueued"
        /\ log[c][2].kind = "enqueued" /\ Len(log[c][2].item) = 2
        /\ log[c][3].kind = "event"
        /\ log[c][4].kind = "reply" /\ log[c][4].item # <<>>
        /\ log[c][5].kind = "event" /\ log[c][5].item = log[c][2].item

WantOwner(c) ==
    CASE lock.pc[c] \in {"none", "cleanup"} -> lock.map
      [] lock.pc[c] \in {"wants_server", "wants_remove_user"} -> lock.server
      [] lock.pc[c] \in {"select", "removed"} -> lock.conn[c]
      [] OTHER -> 0

\* Every task of the set waits for a mutex that a task of the set holds.
Deadlocked(S) == S # {} /\ \A c \in S : WantOwner(c) \in S

\* C31: a task that holds the registry's mutex holds besides it at most the
\* mutex of its own Connection, never the map's or another Connection's; a
\* task that waits for its socket or mailbox or writes to its socket holds no
\* mutex; and no set of tasks wait for one another.
C31_LockDiscipline ==
    /\ \A c \in Conns :
          /\ \A d \in Conns \ {c} : lock.conn[d] # c
          /\ lock.server = c => lock.map # c
          /\ lock.pc[c] \in {"select", "write"} =>
                lock.server # c /\ lock.map # c /\ lock.conn[c] # c
    /\ \A S \in SUBSET Conns : ~Deadlocked(S)

\* A task holds the registry's mutex and its own Connection's while another,
\* holding its own Connection's, waits for the registry's.
C31_Witness ==
    \E c, d \in Conns :
        /\ c # d
        /\ lock.server = c /\ lock.conn[c] = c
        /\ lock.pc[d] = "wants_server" /\ lock.conn[d] = d
====
